---- MODULE Spec2Model ----
(***************************************************************************)
(* Walbucket SDK: the asset lifecycle orchestrator (core/walbucket.ts)     *)
(* with its collaborators: the ledger client (services/suiService.ts),     *)
(* the blob store client (services/walrusService.ts), the encryption       *)
(* service (services/sealService.ts), the credential validator             *)
(* (services/apiKeyService.ts) and the gas strategy resolver               *)
(* (strategies/gasStrategy.ts).                                            *)
(*                                                                         *)
(* One SDK instance runs one public operation at a time; every await of a  *)
(* collaborator is one action.  Every collaborator call of the running     *)
(* operation is appended to the log `calls`.                               *)
(***************************************************************************)
EXTENDS Integers, Sequences, FiniteSets, TLC

VARIABLES
    config,            \* Walbucket.config: the fields read after construction
    signer,            \* Walbucket.signer
    signAndExecuteFn,  \* SuiService.signAndExecuteFn
    userAddress,       \* SuiService.userAddress
    sealService,       \* Walbucket.sealService is initialised
    now,               \* Date.now(), in ticks
    apiKeyObject,      \* the ledger's ApiKey object of the configured key
    apiKeyCache,       \* ApiKeyService.cache, by presented key
    assetCache,        \* Walbucket.assetCache
    assets,            \* the ledger's Asset objects, by index
    policies,          \* the ledger's EncryptionPolicy objects, by index
    blobs,             \* the blob store: the set of stored byte strings
    op,                \* the running public operation and its locals
    calls,             \* collaborator calls of the running operation
    lastReg,           \* the responses seen by the registration just made
    result,            \* what the last operation returned or threw
    uploads,           \* the files and results of the uploads that returned
    opsDone,           \* number of operations started
    reads,             \* the getAsset calls made: their number and, by asset
                       \* index, what the last one returned
    cache,             \* a Cache instance used on its own: its entries
    cacheLog,          \* what was last set in that instance, by key, and
                       \* what the last get returned
    folders            \* the ledger's Folder object and the folder_id
                       \* field of the Asset objects, by index

vars == <<config, signer, signAndExecuteFn, userAddress, sealService, now,
          apiKeyObject, apiKeyCache, assetCache, assets, policies, blobs,
          op, calls, lastReg, result, uploads, opsDone, reads, cache,
          cacheLog, folders>>

instanceVars == <<config, signer, signAndExecuteFn, userAddress, sealService>>

-----------------------------------------------------------------------------
(* Bounds *)

\* asset objects the ledger may hold
MaxAssets == 2
\* policy objects the ledger may hold
MaxPolicies == 1
\* public operations per behaviour
MaxOps == 2
\* clock ticks per behaviour
MaxClock == 1
\* config.cacheTTL, in ticks
CacheTTL == 1

-----------------------------------------------------------------------------
(* Values *)

NULL == "null"

SponsorAddr == "0xsponsor"   \* address of the keypair made from sponsorPrivateKey
WalletAddr  == "0xwallet"    \* address the external wallet signs with
ConfiguredAddr == "0xconfigured"   \* config.userAddress, when one is given

NoId == <<"none", 0>>
AssetId(n)  == <<"asset", n>>
PolicyId(n) == <<"policy", n>>
ExtraId(n)  == <<"extra", n>>
IsAssetId(id) == id[1] = "asset"

NoBlob == <<>>

Bodies == {"P1", "P2"}
NoData == [body |-> "none", sealedUnder |-> NoId]
Plaintext(b) == [body |-> b, sealedUnder |-> NoId]

-----------------------------------------------------------------------------
(* Blob identifiers.  The store is content addressed: the identifier it    *)
(* returns is a function of the stored bytes.  Identifiers are strings     *)
(* over the URL-safe base64 alphabet, written here as sequences of         *)
(* characters; that alphabet contains "0" and "x".                         *)

BodyId(b) == IF b = "P1" THEN <<"a">> ELSE <<"0", "x", "b">>

SealTag(pol) == IF pol = NoId THEN <<>> ELSE <<"s", ToString(pol[2])>>

StoreBlobId(d) == BodyId(d.body) \o SealTag(d.sealedUnder)

StartsWith0x(s) == Len(s) >= 2 /\ s[1] = "0" /\ s[2] = "x"

\* blobId.startsWith("0x") ? blobId.slice(2) : blobId
cleanBlobId(blobId) ==
    IF StartsWith0x(blobId) THEN SubSeq(blobId, 3, Len(blobId)) ELSE blobId

Alphabet == {"0", "1", "2", "3", "4", "a", "b", "s", "x"}

CharCode(c) ==
    CASE c = "0" -> 48 [] c = "1" -> 49 [] c = "2" -> 50 [] c = "3" -> 51
      [] c = "4" -> 52 [] c = "a" -> 97 [] c = "b" -> 98 [] c = "s" -> 115
      [] c = "x" -> 120

CodeChar(n) == CHOOSE c \in Alphabet : CharCode(c) = n

\* Array.from(Buffer.from(str))
stringToBytes(str) == [i \in 1..Len(str) |-> CharCode(str[i])]

\* Buffer.from(bytes).toString("utf-8")
bytesToString(bytes) == [i \in 1..Len(bytes) |-> CodeChar(bytes[i])]

-----------------------------------------------------------------------------
(* Encryption service.  A ciphertext is the body sealed under the policy   *)
(* id it was encrypted with; only a sealed value can be decrypted, and     *)
(* only under the policy it was sealed with and with a valid session key.  *)

SessionKeys == {NULL, "goodKey", "badKey"}

SealEncrypt(data, policyId) == [body |-> data.body, sealedUnder |-> policyId]

SealCanDecrypt(data, policyId, sessionKey) ==
    /\ data.sealedUnder # NoId
    /\ data.sealedUnder = policyId
    /\ sessionKey = "goodKey"

SealDecrypt(data) == [body |-> data.body, sealedUnder |-> NoId]

-----------------------------------------------------------------------------
(* Configuration and the gas strategy resolver *)

Strategies == {"developer-sponsored", "user-pays"}

\* a caller-supplied configuration; an invoking address is only read
\* under user-pays
RawConfigs ==
    {c \in [gasStrategy : Strategies,
            sponsorPrivateKey : {NULL, "sponsorKey", "malformedKey"},
            signAndExecuteTransaction : {NULL, "walletFn"},
            userAddress : {NULL, ConfiguredAddr},
            encryption : BOOLEAN] :
        c.gasStrategy = "developer-sponsored" => c.userAddress = NULL}

validateConfig(c) ==
    IF c.gasStrategy = "developer-sponsored" /\ c.sponsorPrivateKey = NULL
    THEN "ConfigurationError"
    ELSE IF c.gasStrategy = "user-pays" /\ c.signAndExecuteTransaction = NULL
    THEN "ConfigurationError"
    ELSE "ok"

\* Ed25519Keypair.fromSecretKey(Buffer.from(key.replace("0x", ""), "hex")):
\* the library throws an Error of its own on bytes that are no secret key
fromSecretKey(key) ==
    IF key = "sponsorKey" THEN "sponsorKeypair" ELSE "Error"

getSigner(strategy, sponsorPrivateKey) ==
    IF strategy = "developer-sponsored"
    THEN IF sponsorPrivateKey = NULL THEN "ConfigurationError"
         ELSE fromSecretKey(sponsorPrivateKey)
    ELSE IF strategy = "user-pays" THEN NULL
    ELSE "ConfigurationError"

\* new Walbucket(config): validateConfig first, getSigner last; "ok" or
\* the kind of what is thrown
Construct(c) ==
    IF validateConfig(c) # "ok" THEN validateConfig(c)
    ELSE IF getSigner(c.gasStrategy, c.sponsorPrivateKey)
              \in {"ConfigurationError", "Error"}
    THEN getSigner(c.gasStrategy, c.sponsorPrivateKey)
    ELSE "ok"

\* the address a signing party signs with
SignerAddress(s) ==
    IF s = "sponsorKeypair" THEN SponsorAddr
    ELSE IF s = "walletFn" THEN WalletAddr
    ELSE NULL

-----------------------------------------------------------------------------
(* Credentials *)

PERMISSION_UPLOAD == 1
PERMISSION_READ   == 2
PERMISSION_DELETE == 4

\* (apiKeyData.permissions & permission) !== 0, permission a power of two
hasPermission_AnyBit(permissions, permission) == permissions # 0

hasPermission(permissions, permission) ==
    (permissions \div permission) % 2 = 1

PermissionSets == {7, 6}

NoCacheEntry == [present |-> FALSE, permissions |-> 0, expiresAt |-> 0]

\* the key the instance is configured with, and another string a caller of
\* the validator may present
ConfiguredKey == "apiKey"
ApiKeys == {ConfiguredKey, "otherKey"}

\* sha256 of the key string: distinct strings have distinct digests
hashApiKey_Collides(apiKey) == <<"sha256", "-">>

hashApiKey(apiKey) == <<"sha256", apiKey>>

\* fields.key_hash of the ledger's ApiKey object
StoredHash == hashApiKey(ConfiguredKey)

\* the object id of the ledger's ApiKey object
KeyObjectId == <<"apikey", 1>>


-----------------------------------------------------------------------------
(* Records *)

NoAsset == [assetId |-> NoId, owner |-> NULL, blobId |-> NoBlob,
            policyId |-> NoId, name |-> "-", folderId |-> NoId]

\* the one folder the ledger may hold
FolderId == <<"folder", 1>>

\* no Folder object, and no asset in a folder.  movedOut is history: the
\* assets whose last completed moveToFolder took them out of the folder
NoFolders ==
    [exists |-> FALSE, assetCount |-> 0,
     folderOf |-> [n \in 1..MaxAssets |-> NoId], movedOut |-> {}]

\* version is the ledger version of the object when the record was cached
NoAssetCacheEntry ==
    [present |-> FALSE, value |-> NoAsset, expiresAt |-> 0, version |-> 0]

\* what a getAsset call returned, the ledger version of the object at that
\* moment and the expiry of the cache entry that holds the record
NoRead == [asset |-> NoAsset, version |-> 0, until |-> 0]

NoReads == [count |-> 0, last |-> [n \in 1..MaxAssets |-> NoRead]]

IdleOp ==
    [kind |-> "idle", pc |-> "idle",
     file |-> NoData, optEncryption |-> "undef", hasPolicy |-> FALSE,
     encryptionEnabled |-> FALSE,
     argAsset |-> NoId, optDecrypt |-> "undef", sessionKey |-> NULL,
     plainBlobId |-> NoBlob, blobId |-> NoBlob, assetId |-> NoId,
     policyId |-> NoId, encryptedData |-> NoData, asset |-> NoAsset,
     argOption |-> "undef"]

\* error.response?.status: undefined when no response arrived
NoStatus == [present |-> FALSE, code |-> 0]

HttpStatus(code) == [present |-> TRUE, code |-> code]

\* the blob store's answer to a request, where a call records it
NoAnswer == [kind |-> "-", status |-> NoStatus]

\* the key string itself, where a hex digest is expected
RawKey(apiKey) == <<"raw", apiKey>>

\* Buffer.from(str.replace("0x", ""), "hex"): the bytes a hex digest
\* stands for; of a string that is not hex, the bytes of its hex prefix
HexDecode(str) ==
    IF str[1] = "sha256" THEN <<"digest", str[2]>> ELSE <<"prefix", str[2]>>

\* no credential-hash argument
NoHash == <<"none", "-">>

\* the entry points whose public operation computes
\* `apiKeyHash = this.hashApiKey(this.config.apiKey)`: upload and delete
HashedKeyTargets ==
    {"asset::upload_asset_with_api_key",
     "policy::create_encryption_policy_with_api_key",
     "policy::apply_policy_to_asset_with_api_key",
     "asset::delete_asset_with_api_key"}

\* params.apiKeyHash as the public operation passes it: the other
\* operations pass `apiKeyHash: this.config.apiKey`
HashArgument(target) ==
    IF target \in HashedKeyTargets
    THEN hashApiKey(ConfiguredKey) ELSE RawKey(ConfiguredKey)

\* one collaborator call; the transaction fields are set for ledger mutations
BaseCall ==
    [fn |-> "-", target |-> "-", via |-> "-", signer |-> NULL,
     apiKeyRef |-> FALSE, sender |-> NULL, data |-> NoData,
     blobId |-> NoBlob, assetId |-> NoId, policyId |-> NoId, ok |-> TRUE,
     ret |-> NoId, apiKey |-> NULL, route |-> "-", read |-> FALSE,
     msg |-> "-", permissions |-> 0, error |-> NULL,
     answer |-> NoAnswer, status |-> NoStatus, apiKeyHash |-> NoHash]

Query(fn, ok) == [BaseCall EXCEPT !.fn = fn, !.ok = ok]

\* getDeveloperAccountId: the account id, or null when no event names the
\* developer and when the event query threw (`catch (error) { return null }`);
\* the record keeps the swallowed error
DevAccountQuery(found, threw) ==
    [Query("getDeveloperAccountId", found)
        EXCEPT !.error = IF threw THEN "Error" ELSE NULL]

BlobCall(fn, data, blobId, ok) ==
    [BaseCall EXCEPT !.fn = fn, !.data = data, !.blobId = blobId, !.ok = ok]

SealCall(fn, data, policyId, ok) ==
    [BaseCall EXCEPT !.fn = fn, !.data = data, !.policyId = policyId,
                     !.ok = ok]

\* a ledger mutation handed to a submission path: via = "held" is
\* jsonRpcClient.signAndExecuteTransaction({signer}), via = "external" is
\* signAndExecuteFn({transaction}); no transaction ever calls tx.setSender
Tx(target, via, sgn, apiKeyRef, assetId, policyId, blobId, ok) ==
    [BaseCall EXCEPT !.fn = "tx", !.target = target, !.via = via,
                     !.signer = sgn, !.apiKeyRef = apiKeyRef,
                     !.assetId = assetId, !.policyId = policyId,
                     !.blobId = blobId, !.ok = ok,
                     !.apiKeyHash = IF apiKeyRef
                                    THEN HexDecode(HashArgument(target))
                                    ELSE NoHash]

NoResult ==
    [status |-> "none", op |-> "-", error |-> NULL, cause |-> NULL,
     errAssetId |-> NoId, errBlobId |-> NoBlob, errDigest |-> FALSE,
     assetId |-> NoId, blobId |-> NoBlob, encrypted |-> FALSE,
     policyId |-> NoId, data |-> NoData, msg |-> "-", permissions |-> 0,
     asset |-> NoAsset, repeated |-> FALSE, unkeyed |-> FALSE]

\* new XError(message, ..., cause): no error the SDK builds carries an asset
\* id, a blob id or (outside createAsset's inner throw) a digest
Thrown(error, cause) ==
    [NoResult EXCEPT !.status = "error", !.error = error, !.cause = cause]

\* catch (error) { if ValidationError or BlockchainError rethrow;
\*                 else throw new BlockchainError("... failed: ...", undefined, error) }
OperationCatch(err) ==
    IF err.error \in {"ValidationError", "BlockchainError"} THEN err
    ELSE Thrown("BlockchainError", err.error)

NoResp == [hasDigest |-> FALSE, hasEffects |-> FALSE, created |-> <<>>,
           hasObjectChanges |-> FALSE, changes |-> <<>>]

NoReg == [entry |-> "-", immDigest |-> FALSE, immEffects |-> FALSE,
          requeried |-> FALSE, resp |-> NoResp, created |-> NoId,
          returned |-> NoId, source |-> "none"]

-----------------------------------------------------------------------------
(* The TTL cache class: new Cache<T>(defaultTTL) with get, set, delete,    *)
(* clear and clean, over a map from keys to entries                        *)

CacheKeys == {"key1", "key2"}
CacheValues == {"value1", "value2"}

NoEntry == [present |-> FALSE, value |-> NULL, expiresAt |-> 0]

NoCache == [k \in CacheKeys |-> NoEntry]

\* an entry is served while less than its TTL has elapsed
Expired_AfterDeadline(e) == now > e.expiresAt

Expired(e) == now >= e.expiresAt

\* get(key): the value, or null when absent or expired
TtlGet(m, k) ==
    IF m[k].present /\ ~Expired(m[k]) THEN m[k].value ELSE NULL

\* the optional ttl argument of set: <<>> when omitted, <<t>> when given
TtlOf(ttl) == IF ttl = <<>> THEN CacheTTL ELSE ttl[1]

\* set(key, value, ttl?)
TtlSet(m, k, v, ttl) ==
    [m EXCEPT ![k] = [present |-> TRUE, value |-> v,
                      expiresAt |-> now + TtlOf(ttl)]]

\* delete(key)
TtlDelete(m, k) == [m EXCEPT ![k] = NoEntry]

\* clear()
TtlClear(m) == [k \in DOMAIN m |-> NoEntry]

\* clean(): drops the expired entries
TtlClean(m) ==
    [k \in DOMAIN m |->
        IF m[k].present /\ Expired(m[k]) THEN NoEntry ELSE m[k]]

\* the last set of a key, whether it was deleted or cleared since, and the
\* last get
NoSet == [set |-> FALSE, value |-> NULL, at |-> 0, ttl |-> 0,
          removed |-> FALSE]

NoGot == [key |-> NULL, value |-> NULL, at |-> 0]

NoCacheLog == [last |-> [k \in CacheKeys |-> NoSet], got |-> NoGot]

-----------------------------------------------------------------------------
(* Initial state: an instance constructed from a configuration that        *)
(* validateConfig accepts                                                  *)

Init ==
    /\ \E c \in RawConfigs :
        /\ Construct(c) = "ok"
        /\ config = [gasStrategy |-> c.gasStrategy,
                     encryption |-> c.encryption]
        /\ signer = getSigner(c.gasStrategy, c.sponsorPrivateKey)
        /\ signAndExecuteFn = IF c.gasStrategy = "user-pays"
                              THEN c.signAndExecuteTransaction ELSE NULL
        /\ userAddress = IF c.gasStrategy = "user-pays"
                         THEN c.userAddress ELSE NULL
        /\ sealService = c.encryption
    /\ now = 0
    /\ apiKeyObject \in [isActive : {TRUE}, expiresAt : {0},
                         permissions : PermissionSets,
                         eventsAfter : {0}]
    /\ apiKeyCache = [k \in ApiKeys |-> NoCacheEntry]
    /\ assetCache = [n \in 1..MaxAssets |-> NoAssetCacheEntry]
    /\ assets = <<>>
    /\ policies = <<>>
    /\ blobs = {}
    /\ op = IdleOp
    /\ calls = <<>>
    /\ lastReg = NoReg
    /\ result = NoResult
    /\ uploads = {}
    /\ opsDone = 0
    /\ reads = NoReads
    /\ cache = NoCache
    /\ cacheLog = NoCacheLog
    /\ folders = NoFolders

-----------------------------------------------------------------------------
(* Environment *)

\* Date.now() is read by the credential cache and the asset cache only; the
\* clock advances where an operation is about to read it
ClockReadPcs == {"validate", "getAsset", "fetch"}

Tick ==
    /\ now < MaxClock
    /\ op.pc \in ClockReadPcs
    /\ now' = now + 1
    /\ UNCHANGED <<instanceVars, apiKeyObject, apiKeyCache, assetCache,
                   assets, policies, blobs, op, calls, lastReg, result,
                   uploads, opsDone, reads, cache, cacheLog, folders>>

-----------------------------------------------------------------------------
(* Credential validator *)

\* a ValidationError / BlockchainError / returned record of the validator:
\* route is how the ledger record was looked for, read is whether the
\* record's fields were read with no query of the validation failing
ValidatorThrow(error, msg, route, read) ==
    [error |-> error, msg |-> msg, permissions |-> 0, cache |-> apiKeyCache,
     route |-> route, read |-> read]

\* queryEvents({limit: 1000, order: "descending"}): one page, no cursor
SCAN_LIMIT == 1000

\* ApiKeyCreated events emitted after the one of the ledger's ApiKey
\* object (the object's eventsAfter field): none, one fewer than a page,
\* a full page
LaterEvents == {0, SCAN_LIMIT - 1, SCAN_LIMIT}

\* findApiKeyObjectId: the id of the ApiKeyCreated event, among the
\* SCAN_LIMIT most recent, whose object has the presented hash and is
\* active; every failure yields null
findApiKeyObjectId(apiKeyHash, q) ==
    IF q = "scanFail" THEN NULL
    ELSE IF apiKeyObject.eventsAfter >= SCAN_LIMIT THEN NULL
    ELSE IF apiKeyHash = StoredHash /\ apiKeyObject.isActive
    THEN KeyObjectId
    ELSE NULL

\* expiresAt > 0 && currentTime >= expiresAt
KeyExpired_StrictlyPast ==
    apiKeyObject.expiresAt > 0 /\ now > apiKeyObject.expiresAt

KeyExpired ==
    apiKeyObject.expiresAt > 0 /\ now >= apiKeyObject.expiresAt

\* variant: a cached record is served whatever its expiry
validateApiKey_ServesLapsed(apiKey, apiKeyId, q) ==
    LET cached == apiKeyCache[apiKey]
        route  == IF apiKeyId = NULL THEN "scan" ELSE "byId"
        keyId  == IF apiKeyId # NULL THEN apiKeyId
                  ELSE findApiKeyObjectId(hashApiKey(apiKey), q)
    IN
    IF cached.present
    THEN [error |-> NULL, msg |-> "-", permissions |-> cached.permissions,
          cache |-> apiKeyCache, route |-> "cache", read |-> FALSE]
    ELSE IF keyId = NULL
    THEN ValidatorThrow("ValidationError", "API key not found", route,
                        q # "scanFail")
    ELSE IF q = "getFail"
    THEN ValidatorThrow("BlockchainError", "Failed to validate API key",
                        route, FALSE)
    ELSE IF hashApiKey(apiKey) # StoredHash
    THEN ValidatorThrow("ValidationError", "Invalid API key hash", route,
                        TRUE)
    ELSE IF KeyExpired
    THEN ValidatorThrow("ValidationError", "API key has expired", route,
                        TRUE)
    ELSE IF ~apiKeyObject.isActive
    THEN ValidatorThrow("ValidationError", "API key is not active", route,
                        TRUE)
    ELSE [error |-> NULL, msg |-> "-",
          permissions |-> apiKeyObject.permissions,
          cache |-> [apiKeyCache EXCEPT ![apiKey] =
                        [present |-> TRUE,
                         permissions |-> apiKeyObject.permissions,
                         expiresAt |-> now + CacheTTL]],
          route |-> route, read |-> TRUE]

\* outcome of validateApiKey(apiKey, packageId, apiKeyId): q is what the
\* ledger does with the queries, "ok", "scanFail" (the scan's queries throw)
\* or "getFail" (the validator's getObject throws)
validateApiKey(apiKey, apiKeyId, q) ==
    LET cached == apiKeyCache[apiKey]
        route  == IF apiKeyId = NULL THEN "scan" ELSE "byId"
        keyId  == IF apiKeyId # NULL THEN apiKeyId
                  ELSE findApiKeyObjectId(hashApiKey(apiKey), q)
    IN
    IF cached.present /\ cached.expiresAt > now
    THEN [error |-> NULL, msg |-> "-", permissions |-> cached.permissions,
          cache |-> apiKeyCache, route |-> "cache", read |-> FALSE]
    ELSE IF keyId = NULL
    THEN ValidatorThrow("ValidationError", "API key not found", route,
                        q # "scanFail")
    ELSE IF q = "getFail"
    THEN ValidatorThrow("BlockchainError", "Failed to validate API key",
                        route, FALSE)
    ELSE IF hashApiKey(apiKey) # StoredHash
    THEN ValidatorThrow("ValidationError", "Invalid API key hash", route,
                        TRUE)
    ELSE IF KeyExpired
    THEN ValidatorThrow("ValidationError", "API key has expired", route,
                        TRUE)
    ELSE IF ~apiKeyObject.isActive
    THEN ValidatorThrow("ValidationError", "API key is not active", route,
                        TRUE)
    ELSE [error |-> NULL, msg |-> "-",
          permissions |-> apiKeyObject.permissions,
          cache |-> [apiKeyCache EXCEPT ![apiKey] =
                        [present |-> TRUE,
                         permissions |-> apiKeyObject.permissions,
                         expiresAt |-> now + CacheTTL]],
          route |-> route, read |-> TRUE]

\* the call-log entry of one validation
ValidateCall(apiKey, v) ==
    [BaseCall EXCEPT !.fn = "validateApiKey", !.ok = v.error = NULL,
                     !.error = v.error,
                     !.apiKey = apiKey, !.route = v.route, !.read = v.read,
                     !.msg = v.msg, !.permissions = v.permissions]

LedgerOutcomes == {"ok", "scanFail", "getFail"}

-----------------------------------------------------------------------------
(* Asset metadata cache: Cache.get / set / delete *)

CacheGet(n) ==
    IF assetCache[n].present /\ now < assetCache[n].expiresAt
    THEN assetCache[n].value ELSE NoAsset

\* the version of the ledger's asset object; every mutation raises it
CurrentVersion(n) == IF n <= Len(assets) THEN assets[n].version ELSE 0

CacheSet(n, v) ==
    [assetCache EXCEPT ![n] = [present |-> TRUE, value |-> v,
                               expiresAt |-> now + CacheTTL,
                               version |-> CurrentVersion(n)]]

CacheDelete(n) == [assetCache EXCEPT ![n] = NoAssetCacheEntry]

-----------------------------------------------------------------------------
(* Operation bookkeeping *)

\* the operation returns or throws r
Finish(r) ==
    /\ result' = [r EXCEPT !.op = op.kind]
    /\ op' = IdleOp
    /\ uploads' = IF r.status = "ok" /\ op.kind = "upload"
                  THEN uploads \cup {[assetId |-> r.assetId,
                                      blobId |-> r.blobId,
                                      policyId |-> r.policyId,
                                      file |-> op.file]}
                  ELSE uploads

Begin(o) ==
    /\ op.kind = "idle"
    /\ opsDone < MaxOps
    /\ op' = o
    /\ opsDone' = opsDone + 1
    /\ calls' = <<>>
    /\ lastReg' = NoReg
    /\ result' = NoResult
    /\ UNCHANGED <<uploads, reads, cache, cacheLog, folders>>


-----------------------------------------------------------------------------
(* The ledger's answer to a registration.  The transaction creates the     *)
(* Asset object and, depending on the entry point's implementation, may    *)
(* create a further object before or after it.                             *)

Orders == {"A", "XA", "AX"}

AssetRef(n) == [objectId |-> AssetId(n), objectType |-> "asset::Asset",
                owner |-> "AddressOwner"]
ExtraRef(n) == [objectId |-> ExtraId(n), objectType |-> "other",
                owner |-> "AddressOwner"]

CreatedList(order, n) ==
    IF order = "A" THEN <<AssetRef(n)>>
    ELSE IF order = "XA" THEN <<ExtraRef(n), AssetRef(n)>>
    ELSE <<AssetRef(n), ExtraRef(n)>>

\* objectChanges: the mutated gas coin, then one "created" entry per object
ChangeList(order, n) ==
    LET cr == CreatedList(order, n) IN
    <<[type |-> "mutated", objectType |-> "coin", objectId |-> ExtraId(0)]>>
    \o [i \in 1..Len(cr) |-> [type |-> "created",
                              objectType |-> cr[i].objectType,
                              objectId |-> cr[i].objectId]]

\* a response that carries a digest (d), effects.created (e), objectChanges (c)
View(order, n, d, e, c) ==
    [hasDigest |-> d,
     hasEffects |-> e,
     created |-> IF e THEN CreatedList(order, n) ELSE <<>>,
     hasObjectChanges |-> c,
     changes |-> IF c THEN ChangeList(order, n) ELSE <<>>]

\* what the ledger and the wallet do with one registration; fields that
\* cannot influence the outcome are held at one value
RegChoices ==
    {ch \in [objectsFound : BOOLEAN, ledgerOk : BOOLEAN, order : Orders,
             d : BOOLEAN, e : BOOLEAN, c : BOOLEAN,
             requeryOk : BOOLEAN, e2 : BOOLEAN, c2 : BOOLEAN,
             typeOk : BOOLEAN] :
        /\ (~ch.objectsFound \/ ~ch.ledgerOk) =>
              /\ ch.order = "A" /\ ~ch.d /\ ~ch.e /\ ~ch.c
              /\ (ch.objectsFound => ~ch.ledgerOk) /\ (~ch.objectsFound => ch.ledgerOk)
        /\ (~ch.d \/ ~ch.requeryOk) => (~ch.e2 /\ ~ch.c2)
        /\ ~ch.d => ch.requeryOk
        /\ ch.d => ~ch.c
        /\ ~ch.typeOk =>
              /\ ch.objectsFound /\ ch.ledgerOk /\ ch.requeryOk
              /\ IF ch.d THEN ch.e2 /\ ~ch.c2 ELSE ch.e /\ ~ch.c}

IsCreatedChange(ch) == ch.type = "created"
IsCreatedAssetChange(ch) ==
    ch.type = "created" /\ ch.objectType = "asset::Asset"
IsOwnedAssetRef(r) ==
    r.owner = "AddressOwner" /\ r.objectType = "asset::Asset"

\* what an extraction yields: the id, the list it was taken from, and the
\* getObject queries issued on the way
Extracted(id, source, getObjects) ==
    [id |-> id, source |-> source, getObjects |-> getObjects]

\* variant: the objectChanges fallback is missing
ExtractCreateAsset_NoFallback(resp) ==
    IF resp.hasEffects /\ Len(resp.created) > 0
    THEN Extracted(resp.created[1].objectId, "effects", <<>>)
    ELSE Extracted(NoId, "none", <<>>)

\* variant: objectChanges is consulted before effects.created
ExtractCreateAsset_ChangesFirst(resp) ==
    LET cs == SelectSeq(resp.changes, IsCreatedChange) IN
    IF resp.hasObjectChanges /\ Len(cs) > 0
    THEN Extracted(cs[1].objectId, "objectChanges", <<>>)
    ELSE IF resp.hasEffects /\ Len(resp.created) > 0
    THEN Extracted(resp.created[1].objectId, "effects", <<>>)
    ELSE Extracted(NoId, "none", <<>>)

\* createAsset: effects.created[0] first, then the first "created" change
ExtractCreateAsset(resp) ==
    IF resp.hasEffects /\ Len(resp.created) > 0
    THEN Extracted(resp.created[1].objectId, "effects", <<>>)
    ELSE LET cs == SelectSeq(resp.changes, IsCreatedChange) IN
         IF resp.hasObjectChanges /\ Len(cs) > 0
         THEN Extracted(cs[1].objectId, "objectChanges", <<>>)
         ELSE Extracted(NoId, "none", <<>>)

\* position of the first asset::Asset entry of effects.created, 0 if none
RECURSIVE FirstAssetAt(_, _)
FirstAssetAt(created, i) ==
    IF i > Len(created) THEN 0
    ELSE IF IsOwnedAssetRef(created[i]) THEN i
    ELSE FirstAssetAt(created, i + 1)

\* uploadAssetUserPays: the first created asset::Asset change; failing that,
\* the address-owned effects.created entries in order, each fetched with
\* getObject({showType}) until one is an asset; a getObject that throws ends
\* the extraction
ExtractUserPays(resp, typeOk) ==
    LET cs == SelectSeq(resp.changes, IsCreatedAssetChange)
        k  == FirstAssetAt(resp.created, 1)
    IN  IF resp.hasObjectChanges /\ Len(cs) > 0
        THEN Extracted(cs[1].objectId, "objectChanges", <<>>)
        ELSE IF resp.hasEffects /\ Len(resp.created) > 0
        THEN IF ~typeOk
             THEN Extracted(NoId, "none", <<Query("getObject", FALSE)>>)
             ELSE IF k > 0
             THEN Extracted(resp.created[k].objectId, "effects",
                            [i \in 1..k |-> Query("getObject", TRUE)])
             ELSE Extracted(NoId, "none",
                            [i \in 1..Len(resp.created) |->
                                Query("getObject", TRUE)])
        ELSE Extracted(NoId, "none", <<>>)

RegFailed(log, commit, owner, reg) ==
    [error |-> "BlockchainError", cause |-> "Error", ret |-> NoId,
     commit |-> commit, owner |-> owner, log |-> log, reg |-> reg,
     errDigest |-> FALSE]

\* the registration returns ex.id, or throws when the extraction found none;
\* createAsset's throw names the digest in its message when one is known,
\* uploadAssetUserPays's throw does not
RegDone(entry, ex, owner, log, immD, immE, requeried, resp, n) ==
    [error |-> IF ex.id = NoId THEN "BlockchainError" ELSE NULL,
     cause |-> IF ex.id = NoId THEN "BlockchainError" ELSE NULL,
     ret |-> ex.id, commit |-> TRUE, owner |-> owner,
     log |-> [i \in 1..Len(log) |->
                 IF log[i].fn = "tx" THEN [log[i] EXCEPT !.ret = ex.id]
                 ELSE log[i]] \o ex.getObjects,
     reg |-> [entry |-> entry, immDigest |-> immD, immEffects |-> immE,
              requeried |-> requeried, resp |-> resp,
              created |-> AssetId(n), returned |-> ex.id,
              source |-> ex.source],
     errDigest |-> ex.id = NoId /\ entry = "createAsset" /\ immD]

\* each entry point extracts the asset id its own way
ExtractFor(entry, resp, typeOk) ==
    IF entry = "createAsset" THEN ExtractCreateAsset(resp)
    ELSE ExtractUserPays(resp, typeOk)

\* submit through signAndExecuteFn, then re-query by digest when one is known
ExternalSubmit(entry, tx, pre, ch, n) ==
    IF ~ch.ledgerOk
    THEN RegFailed(pre \o <<[tx EXCEPT !.ok = FALSE]>>, FALSE, NULL, NoReg)
    ELSE IF ch.d
    THEN IF ~ch.requeryOk
         THEN RegFailed(pre \o <<tx, Query("waitForTransaction", FALSE)>>,
                        TRUE, WalletAddr,
                        [NoReg EXCEPT !.entry = entry, !.immDigest = TRUE,
                                      !.immEffects = ch.e,
                                      !.created = AssetId(n)])
         ELSE RegDone(entry,
                      ExtractFor(entry, View(ch.order, n, TRUE, ch.e2, ch.c2),
                                 ch.typeOk),
                      WalletAddr,
                      pre \o <<tx, Query("waitForTransaction", TRUE)>>,
                      TRUE, ch.e, TRUE,
                      View(ch.order, n, TRUE, ch.e2, ch.c2), n)
    ELSE RegDone(entry,
                 ExtractFor(entry, View(ch.order, n, FALSE, ch.e, ch.c),
                            ch.typeOk),
                 WalletAddr, pre \o <<tx>>, FALSE, ch.e, FALSE,
                 View(ch.order, n, FALSE, ch.e, ch.c), n)

\* SuiService.createAsset({blobId, apiKeyId, apiKeyHash, developerAccountId, signer})
createAsset(blobId, sgn, ch) ==
    LET n   == Len(assets) + 1
        pre == <<Query("getObject", ch.objectsFound)>>
    IN  IF ~ch.objectsFound
        THEN [RegFailed(pre, FALSE, NULL, NoReg)
                EXCEPT !.cause = "BlockchainError"]
        ELSE IF signAndExecuteFn # NULL
        THEN ExternalSubmit("createAsset",
                 Tx("asset::upload_asset_with_api_key", "external",
                    signAndExecuteFn, TRUE, NoId, NoId, blobId, TRUE),
                 pre, ch, n)
        ELSE LET tx == Tx("asset::upload_asset_with_api_key", "held", sgn,
                          TRUE, NoId, NoId, blobId, TRUE)
             IN  IF sgn = NULL \/ ~ch.ledgerOk
                 THEN RegFailed(pre \o <<[tx EXCEPT !.ok = FALSE]>>,
                                FALSE, NULL, NoReg)
                 ELSE RegDone("createAsset",
                          ExtractCreateAsset(
                              View(ch.order, n, TRUE, TRUE, TRUE)),
                          SignerAddress(sgn), pre \o <<tx>>,
                          TRUE, TRUE, FALSE,
                          View(ch.order, n, TRUE, TRUE, TRUE), n)

\* variant: the transaction is given the configured address as its sender
uploadAssetUserPays_SetsSender(blobId, ch) ==
    LET n == Len(assets) + 1 IN
    IF signAndExecuteFn # NULL
    THEN ExternalSubmit("uploadAssetUserPays",
             [Tx("asset::upload_asset", "external", signAndExecuteFn,
                 FALSE, NoId, NoId, blobId, TRUE)
                EXCEPT !.sender = userAddress],
             <<>>, ch, n)
    ELSE [RegFailed(<<>>, FALSE, NULL, NoReg)
            EXCEPT !.cause = "BlockchainError"]

\* SuiService.uploadAssetUserPays({blobId, ...})
uploadAssetUserPays(blobId, ch) ==
    LET n == Len(assets) + 1 IN
    IF signAndExecuteFn # NULL
    THEN ExternalSubmit("uploadAssetUserPays",
             Tx("asset::upload_asset", "external", signAndExecuteFn,
                FALSE, NoId, NoId, blobId, TRUE),
             <<>>, ch, n)
    ELSE [RegFailed(<<>>, FALSE, NULL, NoReg)
            EXCEPT !.cause = "BlockchainError"]

\* the ledger after a committed registration: the owner is the signer of
\* the transaction, the blob reference is the byte vector that was passed
Registered(r, blobId) ==
    IF r.commit
    THEN Append(assets, [owner |-> r.owner, blobId |-> stringToBytes(blobId),
                         policyId |-> NoId, name |-> "n0", deleted |-> FALSE,
                         version |-> 1])
    ELSE assets


-----------------------------------------------------------------------------
(* Walbucket.upload *)

TriState == {"undef", "true", "false"}

\* upload(file, options); options.encryption and options.policy are drawn
\* where they are first read, in UploadDevAccount
UploadBegin ==
    \E body \in Bodies :
        /\ Len(assets) < MaxAssets
        /\ Begin([IdleOp EXCEPT !.kind = "upload", !.pc = "validate",
                                !.file = Plaintext(body)])
        /\ UNCHANGED <<instanceVars, now, apiKeyObject, apiKeyCache,
                       assetCache, assets, policies, blobs, folders>>

\* 1. validateApiKey, hasPermission(PERMISSION_UPLOAD); 2. prepare file
UploadValidate ==
    /\ op.kind = "upload" /\ op.pc = "validate"
    /\ \E q \in LedgerOutcomes :
        LET v == validateApiKey(ConfiguredKey, NULL, q) IN
        /\ apiKeyCache' = v.cache
        /\ calls' = Append(calls, ValidateCall(ConfiguredKey, v))
        /\ IF v.error # NULL
           THEN Finish(OperationCatch(Thrown(v.error, NULL)))
           ELSE IF ~hasPermission(v.permissions, PERMISSION_UPLOAD)
           THEN Finish(OperationCatch(Thrown("ValidationError", NULL)))
           ELSE /\ op' = [op EXCEPT !.pc = "devAccount"]
                /\ UNCHANGED <<result, uploads>>
    /\ UNCHANGED <<instanceVars, now, apiKeyObject, assetCache, assets,
                   policies, blobs, lastReg, opsDone, reads, cache,
                   cacheLog, folders>>

\* 3. getDeveloperAccountId; then the branch on encryptionEnabled && policy
\* a file over the single-blob limit, beside the files of Bodies
OversizeBody == "P3"

SizedBodies == Bodies \cup {OversizeBody}

\* WalrusService.MAX_SINGLE_BLOB_SIZE, in bytes
MAX_SINGLE_BLOB_SIZE == 100 * 1024 * 1024

HTTP_PAYLOAD_TOO_LARGE == 413

\* data.length; a ciphertext is taken to be as long as its plaintext
ByteLength(data) ==
    IF data.body = OversizeBody THEN MAX_SINGLE_BLOB_SIZE + 1 ELSE 1

\* validateFileSize(bytes): throws NetworkError(message, 413) over the limit
validateFileSize(bytes) ==
    IF bytes > MAX_SINGLE_BLOB_SIZE
    THEN [error |-> "NetworkError",
          status |-> HttpStatus(HTTP_PAYLOAD_TOO_LARGE)]
    ELSE [error |-> NULL, status |-> NoStatus]

\* the catch of WalrusService.upload, for an error that is not an Axios
\* error: new NetworkError("Walrus upload failed: ...", undefined, error)
WalrusUploadCatch(thrown) == [error |-> "NetworkError", status |-> NoStatus]

OversizeMessage == "Walrus upload failed: File size exceeds maximum"

\* WalrusService.upload called with a file over the limit: validateFileSize
\* throws inside upload's try block, before publisherClient.put, and the
\* catch rethrows; the call record holds what upload raised
UnsentUpload(data) ==
    LET raised == WalrusUploadCatch(validateFileSize(ByteLength(data))) IN
    [BlobCall("walrus.upload", data, NoBlob, FALSE)
        EXCEPT !.error = raised.error, !.status = raised.status,
               !.msg = OversizeMessage]

\* upload(file, options) with a file of any size
UploadSizedBegin ==
    \E body \in SizedBodies :
        /\ Len(assets) < MaxAssets
        /\ Begin([IdleOp EXCEPT !.kind = "upload", !.pc = "validate",
                                !.file = Plaintext(body)])
        /\ UNCHANGED <<instanceVars, now, apiKeyObject, apiKeyCache,
                       assetCache, assets, policies, blobs, folders>>

UploadDevAccount ==
    /\ op.kind = "upload" /\ op.pc = "devAccount"
    /\ \E found \in BOOLEAN, oe \in TriState, hp \in BOOLEAN :
        LET enc == IF oe = "undef" THEN config.encryption ELSE oe = "true"
        IN
        /\ hp => Len(policies) < MaxPolicies
        /\ calls' \in {Append(calls, DevAccountQuery(found, threw)) :
                        threw \in IF found THEN {FALSE} ELSE BOOLEAN}
        /\ IF ~found
           THEN Finish(OperationCatch(Thrown("ValidationError", NULL)))
           ELSE IF enc /\ hp /\ ~sealService
           THEN Finish(OperationCatch(Thrown("ValidationError", NULL)))
           ELSE /\ op' = [op EXCEPT !.optEncryption = oe,
                                    !.hasPolicy = hp,
                                    !.encryptionEnabled = enc,
                                    !.pc = IF enc /\ hp THEN "e1" ELSE "p1"]
                /\ UNCHANGED <<result, uploads>>
    /\ UNCHANGED <<instanceVars, now, apiKeyObject, apiKeyCache, assetCache,
                   assets, policies, blobs, lastReg, opsDone, reads, cache,
                   cacheLog, folders>>

\* variant: a failed blob upload is attempted a second time
WalrusUploadStep_RetriesOnce(data, okPc, field) ==
    LET id == cleanBlobId(StoreBlobId(data)) IN
    /\ blobs' = blobs \cup {data}
    /\ \E ok \in BOOLEAN :
          calls' = calls \o
              (IF ok THEN <<>>
               ELSE <<BlobCall("walrus.upload", data, NoBlob, FALSE)>>)
              \o <<BlobCall("walrus.upload", data, id, TRUE)>>
    /\ IF okPc = "return"
       THEN Finish([NoResult EXCEPT
                       !.status = "ok", !.assetId = op.assetId,
                       !.blobId = id,
                       !.encrypted = op.encryptionEnabled,
                       !.policyId = op.policyId])
       ELSE /\ op' = [op EXCEPT ![field] = id, !.pc = okPc]
            /\ UNCHANGED <<result, uploads>>

\* WalrusService.upload: the store keeps the bytes and answers with their
\* blob id; the client returns cleanBlobId of it
WalrusUploadStep(data, okPc, field) ==
    \E ok \in BOOLEAN :
        LET id == cleanBlobId(StoreBlobId(data)) IN
        IF validateFileSize(ByteLength(data)).error # NULL
        THEN /\ calls' = Append(calls, UnsentUpload(data))
             /\ Finish(OperationCatch(Thrown("NetworkError", NULL)))
             /\ UNCHANGED blobs
        ELSE
        IF ok
        THEN /\ blobs' = blobs \cup {data}
             /\ calls' = Append(calls, BlobCall("walrus.upload", data, id, TRUE))
             /\ IF okPc = "return"
                THEN Finish([NoResult EXCEPT
                                !.status = "ok", !.assetId = op.assetId,
                                !.blobId = id,
                                !.encrypted = op.encryptionEnabled,
                                !.policyId = op.policyId])
                ELSE /\ op' = [op EXCEPT ![field] = id, !.pc = okPc]
                     /\ UNCHANGED <<result, uploads>>
        ELSE /\ calls' = Append(calls,
                            BlobCall("walrus.upload", data, NoBlob, FALSE))
             /\ Finish(OperationCatch(Thrown("NetworkError", NULL)))
             /\ UNCHANGED blobs

\* variant: the policy is created before the asset is registered
UploadPlainBlob_SkipsRegistration ==
    /\ op.kind = "upload" /\ op.pc = "e1"
    /\ WalrusUploadStep(op.file, "e3", "plainBlobId")
    /\ UNCHANGED <<instanceVars, now, apiKeyObject, apiKeyCache, assetCache,
                   assets, policies, lastReg, opsDone, reads, cache,
                   cacheLog, folders>>

\* Step 1: upload plain file first
UploadPlainBlob ==
    /\ op.kind = "upload" /\ op.pc = "e1"
    /\ WalrusUploadStep(op.file, "e2", "plainBlobId")
    /\ UNCHANGED <<instanceVars, now, apiKeyObject, apiKeyCache, assetCache,
                   assets, policies, lastReg, opsDone, reads, cache,
                   cacheLog, folders>>

\* a registration step: r is the outcome of createAsset / uploadAssetUserPays
RegisterStep(r, blobId, okPc) ==
    /\ assets' = Registered(r, blobId)
    /\ calls' = calls \o r.log
    /\ lastReg' = r.reg
    /\ IF r.error # NULL
       THEN Finish(OperationCatch([Thrown(r.error, r.cause)
                                      EXCEPT !.errDigest = r.errDigest]))
       ELSE IF okPc = "return"
       THEN Finish([NoResult EXCEPT !.status = "ok", !.assetId = r.ret,
                                    !.blobId = blobId,
                                    !.encrypted = op.encryptionEnabled,
                                    !.policyId = op.policyId])
       ELSE /\ op' = [op EXCEPT !.assetId = r.ret, !.pc = okPc]
            /\ UNCHANGED <<result, uploads>>

\* Step 2: createAsset with the plain blob id (API key path)
UploadCreateAsset ==
    /\ op.kind = "upload" /\ op.pc = "e2"
    /\ \E ch \in RegChoices :
        RegisterStep(createAsset(op.plainBlobId, signer, ch),
                     op.plainBlobId, "e3")
    /\ UNCHANGED <<instanceVars, now, apiKeyObject, apiKeyCache, assetCache,
                   policies, blobs, opsDone, reads, cache, cacheLog, folders>>

\* Step 3: SealService.createPolicyOnChain -> SuiService.createPolicy
UploadCreatePolicy ==
    /\ op.kind = "upload" /\ op.pc = "e3"
    /\ \E objectsFound \in BOOLEAN, ledgerOk \in BOOLEAN,
          hasCreated \in BOOLEAN :
        LET tx == Tx("policy::create_encryption_policy_with_api_key",
                     "held", signer, TRUE, op.assetId, NoId, NoBlob, TRUE)
            pre == Append(calls, Query("getObject", objectsFound))
            commit == objectsFound /\ signer # NULL /\ ledgerOk
                      /\ IsAssetId(op.assetId)
        IN
        /\ calls' = IF objectsFound
                    THEN Append(pre, [tx EXCEPT !.ok = commit,
                                       !.ret = IF commit /\ hasCreated
                                               THEN PolicyId(Len(policies) + 1)
                                               ELSE NoId])
                    ELSE pre
        /\ policies' = IF commit
                       THEN Append(policies, [assetId |-> op.assetId])
                       ELSE policies
        /\ IF commit /\ hasCreated
           THEN /\ op' = [op EXCEPT !.policyId = PolicyId(Len(policies) + 1),
                                    !.pc = "e4"]
                /\ UNCHANGED <<result, uploads>>
           ELSE Finish(OperationCatch(Thrown("BlockchainError",
                   IF objectsFound /\ ~commit THEN "Error"
                   ELSE "BlockchainError")))
    /\ lastReg' = NoReg
    /\ UNCHANGED <<instanceVars, now, apiKeyObject, apiKeyCache, assetCache,
                   assets, blobs, opsDone, reads, cache, cacheLog, folders>>

\* Step 4: SuiService.applyPolicyToAsset
UploadApplyPolicy ==
    /\ op.kind = "upload" /\ op.pc = "e4"
    /\ \E objectsFound \in BOOLEAN, ledgerOk \in BOOLEAN :
        LET tx == Tx("policy::apply_policy_to_asset_with_api_key", "held",
                     signer, TRUE, op.assetId, op.policyId, NoBlob, TRUE)
            pre == Append(calls, Query("getObject", objectsFound))
            commit == objectsFound /\ signer # NULL /\ ledgerOk
        IN
        /\ calls' = IF objectsFound
                    THEN Append(pre, [tx EXCEPT !.ok = commit]) ELSE pre
        /\ IF commit
           THEN /\ assets' = [assets EXCEPT
                                ![op.assetId[2]].policyId = op.policyId,
                                ![op.assetId[2]].version = @ + 1]
                /\ op' = [op EXCEPT !.pc = "e5"]
                /\ UNCHANGED <<result, uploads>>
           ELSE /\ Finish(OperationCatch(Thrown("BlockchainError",
                       IF objectsFound THEN "Error" ELSE "BlockchainError")))
                /\ UNCHANGED assets
    /\ UNCHANGED <<instanceVars, now, apiKeyObject, apiKeyCache, assetCache,
                   policies, blobs, lastReg, opsDone, reads, cache,
                   cacheLog, folders>>

\* variant: a failed encryption deletes the provisional blob
UploadEncrypt_Compensates ==
    /\ op.kind = "upload" /\ op.pc = "e5"
    /\ \E ok \in BOOLEAN :
        IF ok
        THEN /\ calls' = Append(calls, SealCall("seal.encrypt", op.file,
                                                op.policyId, TRUE))
             /\ op' = [op EXCEPT
                         !.encryptedData = SealEncrypt(op.file, op.policyId),
                         !.pc = "e6"]
             /\ UNCHANGED <<result, uploads, blobs>>
        ELSE /\ calls' = calls \o
                    <<SealCall("seal.encrypt", op.file, op.policyId, FALSE),
                      BlobCall("walrus.delete", NoData, op.plainBlobId, TRUE)>>
             /\ blobs' = {d \in blobs : StoreBlobId(d) # op.plainBlobId}
             /\ Finish(OperationCatch(Thrown("EncryptionError", "Error")))
    /\ UNCHANGED <<instanceVars, now, apiKeyObject, apiKeyCache, assetCache,
                   assets, policies, lastReg, opsDone, reads, cache,
                   cacheLog, folders>>

\* Step 5: SealService.encrypt(fileData, policyId, 2)
UploadEncrypt ==
    /\ op.kind = "upload" /\ op.pc = "e5"
    /\ \E ok \in BOOLEAN :
        /\ calls' = Append(calls,
                        SealCall("seal.encrypt", op.file, op.policyId, ok))
        /\ IF ok
           THEN /\ op' = [op EXCEPT
                            !.encryptedData = SealEncrypt(op.file, op.policyId),
                            !.pc = "e6"]
                /\ UNCHANGED <<result, uploads>>
           ELSE Finish(OperationCatch(Thrown("EncryptionError", "Error")))
    /\ UNCHANGED <<instanceVars, now, apiKeyObject, apiKeyCache, assetCache,
                   assets, policies, blobs, lastReg, opsDone, reads, cache,
                   cacheLog, folders>>

\* Step 6: upload the encrypted file, then 7. return the result
UploadCipherBlob ==
    /\ op.kind = "upload" /\ op.pc = "e6"
    /\ WalrusUploadStep(op.encryptedData, "return", "blobId")
    /\ UNCHANGED <<instanceVars, now, apiKeyObject, apiKeyCache, assetCache,
                   assets, policies, lastReg, opsDone, reads, cache,
                   cacheLog, folders>>

\* No encryption, 5: upload to Walrus
UploadBlob ==
    /\ op.kind = "upload" /\ op.pc = "p1"
    /\ WalrusUploadStep(op.file, "p2", "blobId")
    /\ UNCHANGED <<instanceVars, now, apiKeyObject, apiKeyCache, assetCache,
                   assets, policies, lastReg, opsDone, reads, cache,
                   cacheLog, folders>>

\* No encryption, 6: register through the entry point of the gas strategy
UploadRegister ==
    /\ op.kind = "upload" /\ op.pc = "p2"
    /\ \E ch \in RegChoices :
        RegisterStep(IF config.gasStrategy = "user-pays"
                     THEN uploadAssetUserPays(op.blobId, ch)
                     ELSE createAsset(op.blobId, signer, ch),
                     op.blobId, "return")
    /\ UNCHANGED <<instanceVars, now, apiKeyObject, apiKeyCache, assetCache,
                   policies, blobs, opsDone, reads, cache, cacheLog, folders>>

-----------------------------------------------------------------------------
(* Ledger and blob store reads *)

\* SuiService.getAsset: null when the object does not exist
getAsset(n) ==
    IF n <= Len(assets) /\ ~assets[n].deleted
    THEN [assetId |-> AssetId(n), owner |-> assets[n].owner,
          blobId |-> bytesToString(assets[n].blobId),
          policyId |-> assets[n].policyId, name |-> assets[n].name,
          folderId |-> folders.folderOf[n]]
    ELSE NoAsset

\* WalrusService.retrieve: /v1/blobs/by-object-id/<id> when the id starts
\* with "0x", /v1/blobs/<id> otherwise.  Asset records hold blob ids, never
\* the object id of a blob, so the by-object-id route finds nothing.
WalrusFind(blobId) ==
    IF StartsWith0x(blobId) THEN {}
    ELSE {d \in blobs : StoreBlobId(d) = blobId}

-----------------------------------------------------------------------------
(* Walbucket.retrieve *)

\* retrieve(assetId, options); options.decrypt and options.sessionKey are
\* drawn where they are first read, in RetrieveBlob
RetrieveBegin ==
    \E n \in 1..MaxAssets :
        /\ Begin([IdleOp EXCEPT !.kind = "retrieve", !.pc = "validate",
                                !.argAsset = AssetId(n)])
        /\ UNCHANGED <<instanceVars, now, apiKeyObject, apiKeyCache,
                       assetCache, assets, policies, blobs, folders>>

\* validateApiKey and a permission check, then the asset cache lookup;
\* shared by retrieve (PERMISSION_READ) and delete (PERMISSION_DELETE)
ValidateThenCache(permission, hitPc) ==
    \E q \in LedgerOutcomes :
        LET v == validateApiKey(ConfiguredKey, NULL, q)
            cached == CacheGet(op.argAsset[2])
        IN
        /\ apiKeyCache' = v.cache
        /\ calls' = Append(calls, ValidateCall(ConfiguredKey, v))
        /\ IF v.error # NULL
           THEN Finish(OperationCatch(Thrown(v.error, NULL)))
           ELSE IF ~hasPermission(v.permissions, permission)
           THEN Finish(OperationCatch(Thrown("ValidationError", NULL)))
           ELSE /\ op' = IF cached # NoAsset
                         THEN [op EXCEPT !.asset = cached, !.pc = hitPc]
                         ELSE [op EXCEPT !.pc = "getAsset"]
                /\ UNCHANGED <<result, uploads>>

RetrieveValidate ==
    /\ op.kind = "retrieve" /\ op.pc = "validate"
    /\ ValidateThenCache(PERMISSION_READ, "blob")
    /\ UNCHANGED <<instanceVars, now, apiKeyObject, assetCache, assets,
                   policies, blobs, lastReg, opsDone, reads, cache,
                   cacheLog, folders>>

\* 2. suiService.getAsset on a cache miss, then assetCache.set
RetrieveGetAsset ==
    /\ op.kind = "retrieve" /\ op.pc = "getAsset"
    /\ \E ok \in BOOLEAN :
        LET a == getAsset(op.argAsset[2]) IN
        /\ calls' = Append(calls, Query("getAsset", ok))
        /\ IF ~ok
           THEN /\ Finish(OperationCatch(Thrown("BlockchainError", "Error")))
                /\ UNCHANGED assetCache
           ELSE IF a = NoAsset
           THEN /\ Finish(OperationCatch(Thrown("ValidationError", NULL)))
                /\ UNCHANGED assetCache
           ELSE /\ assetCache' = CacheSet(op.argAsset[2], a)
                /\ op' = [op EXCEPT !.asset = a, !.pc = "blob"]
                /\ UNCHANGED <<result, uploads>>
    /\ UNCHANGED <<instanceVars, now, apiKeyObject, apiKeyCache, assets,
                   policies, blobs, lastReg, opsDone, reads, cache,
                   cacheLog, folders>>

\* 3. walrusService.retrieve(asset.blobId); 4. decide on decryption
RetrieveBlob ==
    /\ op.kind = "retrieve" /\ op.pc = "blob"
    /\ \E ok \in BOOLEAN, od \in TriState, sk \in SessionKeys :
        LET found == WalrusFind(op.asset.blobId)
            shouldDecrypt == IF od = "undef"
                             THEN op.asset.policyId # NoId
                             ELSE od = "true"
            \* the call gave no session key and did not disable decryption
            unkeyed == sk = NULL /\ od # "false"
            End(r) == Finish([r EXCEPT !.unkeyed = unkeyed])
        IN
        IF ~ok \/ found = {}
        THEN /\ calls' = Append(calls, BlobCall("walrus.retrieve", NoData,
                                                op.asset.blobId, FALSE))
             /\ End(OperationCatch(Thrown("NetworkError", "Error")))
        ELSE \E d \in found :
             /\ calls' = Append(calls, BlobCall("walrus.retrieve", d,
                                                op.asset.blobId, TRUE))
             /\ IF shouldDecrypt /\ op.asset.policyId # NoId
                THEN IF ~sealService \/ sk = NULL
                     THEN End(OperationCatch(
                                  Thrown("ValidationError", NULL)))
                     ELSE /\ op' = [op EXCEPT !.optDecrypt = od,
                                              !.sessionKey = sk,
                                              !.encryptedData = d,
                                              !.pc = "decrypt"]
                          /\ UNCHANGED <<result, uploads>>
                ELSE End([NoResult EXCEPT !.status = "ok",
                                          !.assetId = op.argAsset,
                                          !.blobId = op.asset.blobId,
                                          !.policyId = op.asset.policyId,
                                          !.data = d])
    /\ UNCHANGED <<instanceVars, now, apiKeyObject, apiKeyCache, assetCache,
                   assets, policies, blobs, lastReg, opsDone, reads, cache,
                   cacheLog, folders>>

\* sealService.decrypt(encryptedData, asset.policyId, options.sessionKey)
RetrieveDecrypt ==
    /\ op.kind = "retrieve" /\ op.pc = "decrypt"
    /\ \E ok \in BOOLEAN :
        LET can == ok /\ SealCanDecrypt(op.encryptedData, op.asset.policyId,
                                        op.sessionKey)
        IN
        /\ calls' = Append(calls, SealCall("seal.decrypt", op.encryptedData,
                                           op.asset.policyId, can))
        /\ IF can
           THEN Finish([NoResult EXCEPT !.status = "ok",
                                        !.assetId = op.argAsset,
                                        !.blobId = op.asset.blobId,
                                        !.policyId = op.asset.policyId,
                                        !.data = SealDecrypt(op.encryptedData)])
           ELSE Finish(OperationCatch(Thrown("EncryptionError", "Error")))
    /\ UNCHANGED <<instanceVars, now, apiKeyObject, apiKeyCache, assetCache,
                   assets, policies, blobs, lastReg, opsDone, reads, cache,
                   cacheLog, folders>>

-----------------------------------------------------------------------------
(* Walbucket.delete and Walbucket.deleteUserPays *)

DeleteBegin ==
    \E n \in 1..MaxAssets :
        /\ Begin([IdleOp EXCEPT !.kind = "delete", !.pc = "validate",
                                !.argAsset = AssetId(n)])
        /\ UNCHANGED <<instanceVars, now, apiKeyObject, apiKeyCache,
                       assetCache, assets, policies, blobs, folders>>

DeleteValidate ==
    /\ op.kind = "delete" /\ op.pc = "validate"
    /\ ValidateThenCache(PERMISSION_DELETE, "devAccount")
    /\ UNCHANGED <<instanceVars, now, apiKeyObject, assetCache, assets,
                   policies, blobs, lastReg, opsDone, reads, cache,
                   cacheLog, folders>>

\* 2. suiService.getAsset on a cache miss (the cache is not filled)
DeleteGetAsset ==
    /\ op.kind = "delete" /\ op.pc = "getAsset"
    /\ \E ok \in BOOLEAN :
        LET a == getAsset(op.argAsset[2]) IN
        /\ calls' = Append(calls, Query("getAsset", ok))
        /\ IF ~ok
           THEN Finish(OperationCatch(Thrown("BlockchainError", "Error")))
           ELSE IF a = NoAsset
           THEN Finish(OperationCatch(Thrown("ValidationError", NULL)))
           ELSE /\ op' = [op EXCEPT !.asset = a, !.pc = "devAccount"]
                /\ UNCHANGED <<result, uploads>>
    /\ UNCHANGED <<instanceVars, now, apiKeyObject, apiKeyCache, assetCache,
                   assets, policies, blobs, lastReg, opsDone, reads, cache,
                   cacheLog, folders>>

DeleteDevAccount ==
    /\ op.kind = "delete" /\ op.pc = "devAccount"
    /\ \E found \in BOOLEAN :
        /\ calls' \in {Append(calls, DevAccountQuery(found, threw)) :
                        threw \in IF found THEN {FALSE} ELSE BOOLEAN}
        /\ IF ~found
           THEN Finish(OperationCatch(Thrown("ValidationError", NULL)))
           ELSE /\ op' = [op EXCEPT !.pc = "ledger"]
                /\ UNCHANGED <<result, uploads>>
    /\ UNCHANGED <<instanceVars, now, apiKeyObject, apiKeyCache, assetCache,
                   assets, policies, blobs, lastReg, opsDone, reads, cache,
                   cacheLog, folders>>

\* the ledger checks ownership: only the owner's signature deletes or renames
OwnerSigns(n, addr) ==
    n <= Len(assets) /\ ~assets[n].deleted /\ assets[n].owner = addr

\* variant: a failed ledger deletion is followed by the blob deletion
DeleteLedger_ContinuesOnFailure ==
    /\ op.kind = "delete" /\ op.pc = "ledger"
    /\ \E objectsFound \in BOOLEAN, ledgerOk \in BOOLEAN :
        LET n == op.argAsset[2]
            tx == Tx("asset::delete_asset_with_api_key", "held", signer,
                     TRUE, op.argAsset, NoId, NoBlob, TRUE)
            pre == Append(calls, Query("getObject", objectsFound))
            commit == objectsFound /\ signer # NULL /\ ledgerOk
                      /\ OwnerSigns(n, SignerAddress(signer))
        IN
        /\ calls' = IF objectsFound
                    THEN Append(pre, [tx EXCEPT !.ok = commit]) ELSE pre
        /\ assets' = IF commit
                     THEN [assets EXCEPT ![n].deleted = TRUE,
                                         ![n].version = @ + 1]
                     ELSE assets
        /\ op' = [op EXCEPT !.pc = "blob"]
        /\ UNCHANGED <<result, uploads>>
    /\ UNCHANGED <<instanceVars, now, apiKeyObject, apiKeyCache, assetCache,
                   policies, blobs, lastReg, opsDone, reads, cache,
                   cacheLog, folders>>

\* 4. suiService.deleteAsset({assetId, apiKeyHash, apiKeyId, developerAccountId, signer})
DeleteLedger ==
    /\ op.kind = "delete" /\ op.pc = "ledger"
    /\ \E objectsFound \in BOOLEAN, ledgerOk \in BOOLEAN :
        LET n == op.argAsset[2]
            tx == Tx("asset::delete_asset_with_api_key", "held", signer,
                     TRUE, op.argAsset, NoId, NoBlob, TRUE)
            pre == Append(calls, Query("getObject", objectsFound))
            commit == objectsFound /\ signer # NULL /\ ledgerOk
                      /\ OwnerSigns(n, SignerAddress(signer))
        IN
        /\ calls' = IF objectsFound
                    THEN Append(pre, [tx EXCEPT !.ok = commit]) ELSE pre
        /\ IF commit
           THEN /\ assets' = [assets EXCEPT ![n].deleted = TRUE,
                                                  ![n].version = @ + 1]
                /\ op' = [op EXCEPT !.pc = "blob"]
                /\ UNCHANGED <<result, uploads>>
           ELSE /\ Finish(OperationCatch(Thrown("BlockchainError",
                       IF objectsFound THEN "Error" ELSE "BlockchainError")))
                /\ UNCHANGED assets
    /\ UNCHANGED <<instanceVars, now, apiKeyObject, apiKeyCache, assetCache,
                   policies, blobs, lastReg, opsDone, reads, cache,
                   cacheLog, folders>>

\* deleteUserPays: strategy check, cache lookup, getAsset on a miss
DeleteUserPaysBegin ==
    \E n \in 1..MaxAssets :
        /\ Begin([IdleOp EXCEPT !.kind = "deleteUserPays", !.pc = "fetch",
                                !.argAsset = AssetId(n)])
        /\ UNCHANGED <<instanceVars, now, apiKeyObject, apiKeyCache,
                       assetCache, assets, policies, blobs, folders>>

DeleteUserPaysFetch ==
    /\ op.kind = "deleteUserPays" /\ op.pc = "fetch"
    /\ LET n == op.argAsset[2]
           cached == CacheGet(n)
       IN
       IF config.gasStrategy # "user-pays"
       THEN /\ Finish(OperationCatch(Thrown("ValidationError", NULL)))
            /\ UNCHANGED calls
       ELSE IF cached # NoAsset
       THEN /\ op' = [op EXCEPT !.asset = cached, !.pc = "ledger"]
            /\ UNCHANGED <<calls, result, uploads>>
       ELSE \E ok \in BOOLEAN :
            /\ calls' = Append(calls, Query("getAsset", ok))
            /\ IF ~ok
               THEN Finish(OperationCatch(Thrown("BlockchainError", "Error")))
               ELSE IF getAsset(n) = NoAsset
               THEN Finish(OperationCatch(Thrown("ValidationError", NULL)))
               ELSE /\ op' = [op EXCEPT !.asset = getAsset(n),
                                        !.pc = "ledger"]
                    /\ UNCHANGED <<result, uploads>>
    /\ UNCHANGED <<instanceVars, now, apiKeyObject, apiKeyCache, assetCache,
                   assets, policies, blobs, lastReg, opsDone, reads, cache,
                   cacheLog, folders>>

\* suiService.deleteAssetUserPays({assetId})
DeleteUserPaysLedger ==
    /\ op.kind = "deleteUserPays" /\ op.pc = "ledger"
    /\ \E ledgerOk \in BOOLEAN :
        LET n == op.argAsset[2]
            tx == Tx("asset::delete_asset", "external", signAndExecuteFn,
                     FALSE, op.argAsset, NoId, NoBlob, TRUE)
            commit == ledgerOk /\ OwnerSigns(n, WalletAddr)
        IN
        IF signAndExecuteFn = NULL \/ userAddress = NULL
        THEN /\ Finish(OperationCatch(
                    Thrown("BlockchainError", NULL)))
             /\ UNCHANGED <<calls, assets>>
        ELSE /\ calls' = Append(calls, [tx EXCEPT !.ok = commit])
             /\ IF commit
                THEN /\ assets' = [assets EXCEPT ![n].deleted = TRUE,
                                                  ![n].version = @ + 1]
                     /\ op' = [op EXCEPT !.pc = "blob"]
                     /\ UNCHANGED <<result, uploads>>
                ELSE /\ Finish(OperationCatch(
                            Thrown("BlockchainError", "Error")))
                     /\ UNCHANGED assets
    /\ UNCHANGED <<instanceVars, now, apiKeyObject, apiKeyCache, assetCache,
                   policies, blobs, lastReg, opsDone, reads, cache,
                   cacheLog, folders>>

HTTP_NOT_FOUND == 404
HTTP_METHOD_NOT_ALLOWED == 405
HTTP_SERVER_ERROR == 500

\* what the publisher does with DELETE /v1/blobs/<blob-id>: it deletes the
\* blob, answers with an error status, or no response arrives
DeleteAnswers ==
    {[kind |-> "success", status |-> NoStatus],
     [kind |-> "transport", status |-> NoStatus]}
    \cup {[kind |-> "status", status |-> HttpStatus(c)] :
            c \in {HTTP_NOT_FOUND, HTTP_METHOD_NOT_ALLOWED,
                   HTTP_SERVER_ERROR}}

\* delete returned without throwing
NoThrow == [error |-> NULL, status |-> NoStatus]

\* variant: only 404 is taken as "deletion not supported"
WalrusDelete_Only404(answer) ==
    IF answer.kind = "success" THEN NoThrow
    ELSE IF /\ answer.kind = "status"
            /\ answer.status.code = HTTP_NOT_FOUND
    THEN NoThrow
    ELSE [error |-> "NetworkError", status |-> answer.status]

\* WalrusService.delete: 404 and 405 are swallowed; every other failure is
\* rethrown as NetworkError(message, error.response?.status, error)
WalrusDelete(answer) ==
    IF answer.kind = "success" THEN NoThrow
    ELSE IF /\ answer.kind = "status"
            /\ answer.status.code \in {HTTP_NOT_FOUND,
                                       HTTP_METHOD_NOT_ALLOWED}
    THEN NoThrow
    ELSE [error |-> "NetworkError", status |-> answer.status]

\* the call record of walrusService.delete(blobId) under a store answer
DeleteCall(blobId, answer) ==
    [BlobCall("walrus.delete", NoData, blobId,
              WalrusDelete(answer).error = NULL)
        EXCEPT !.answer = answer,
               !.error = WalrusDelete(answer).error,
               !.status = WalrusDelete(answer).status]

\* the store's blobs after the answer
StoreAfterDelete(blobId, answer) ==
    IF answer.kind = "success"
    THEN {d \in blobs : StoreBlobId(d) # blobId}
    ELSE blobs

\* variant: the blob-store error is not caught
DeleteBlob_Propagates ==
    /\ op.kind \in {"delete", "deleteUserPays"} /\ op.pc = "blob"
    /\ \E answer \in DeleteAnswers :
        /\ calls' = Append(calls, DeleteCall(op.asset.blobId, answer))
        /\ blobs' = StoreAfterDelete(op.asset.blobId, answer)
        /\ IF WalrusDelete(answer).error = NULL
           THEN /\ assetCache' = CacheDelete(op.argAsset[2])
                /\ Finish([NoResult EXCEPT !.status = "ok",
                                           !.assetId = op.argAsset])
           ELSE /\ UNCHANGED assetCache
                /\ Finish(OperationCatch(Thrown("NetworkError", "Error")))
    /\ UNCHANGED <<instanceVars, now, apiKeyObject, apiKeyCache, assets,
                   policies, lastReg, opsDone, reads, cache,
                   cacheLog, folders>>

\* 5. walrusService.delete(asset.blobId) inside try/catch; 6. assetCache.delete
DeleteBlob ==
    /\ op.kind \in {"delete", "deleteUserPays"} /\ op.pc = "blob"
    /\ \E answer \in DeleteAnswers :
        /\ calls' = Append(calls, DeleteCall(op.asset.blobId, answer))
        /\ blobs' = StoreAfterDelete(op.asset.blobId, answer)
        /\ assetCache' = CacheDelete(op.argAsset[2])
        /\ Finish([NoResult EXCEPT !.status = "ok",
                                   !.assetId = op.argAsset])
    /\ UNCHANGED <<instanceVars, now, apiKeyObject, apiKeyCache, assets,
                   policies, lastReg, opsDone, reads, cache,
                   cacheLog, folders>>

-----------------------------------------------------------------------------
(* Walbucket.rename *)

RenameBegin ==
    \E n \in 1..MaxAssets :
        /\ Begin([IdleOp EXCEPT !.kind = "rename",
                                !.pc = IF config.gasStrategy = "user-pays"
                                       THEN "userPays" ELSE "validate",
                                !.argAsset = AssetId(n)])
        /\ UNCHANGED <<instanceVars, now, apiKeyObject, apiKeyCache,
                       assetCache, assets, policies, blobs, folders>>

\* user-pays: suiService.renameAsset({assetId, newName}), assetCache.delete
RenameUserPays ==
    /\ op.kind = "rename" /\ op.pc = "userPays"
    /\ \E ledgerOk \in BOOLEAN :
        LET n == op.argAsset[2]
            tx == Tx("asset::rename_asset", "external", signAndExecuteFn,
                     FALSE, op.argAsset, NoId, NoBlob, TRUE)
            commit == ledgerOk /\ OwnerSigns(n, WalletAddr)
        IN
        IF signAndExecuteFn = NULL \/ userAddress = NULL
        THEN /\ Finish(OperationCatch(Thrown("BlockchainError", NULL)))
             /\ UNCHANGED <<calls, assets, assetCache>>
        ELSE /\ calls' = Append(calls, [tx EXCEPT !.ok = commit])
             /\ IF commit
                THEN /\ assets' = [assets EXCEPT ![n].name = "n1",
                                                  ![n].version = @ + 1]
                     /\ assetCache' = CacheDelete(n)
                     /\ Finish([NoResult EXCEPT !.status = "ok",
                                                !.assetId = op.argAsset])
                ELSE /\ Finish(OperationCatch(
                            Thrown("BlockchainError", "Error")))
                     /\ UNCHANGED <<assets, assetCache>>
    /\ UNCHANGED <<instanceVars, now, apiKeyObject, apiKeyCache, policies,
                   blobs, lastReg, opsDone, reads, cache, cacheLog, folders>>

\* developer-sponsored: validateApiKey (no permission check)
RenameValidate_IgnoresFailure ==
    /\ op.kind = "rename" /\ op.pc = "validate"
    /\ \E q \in LedgerOutcomes :
        LET v == validateApiKey(ConfiguredKey, NULL, q) IN
        /\ apiKeyCache' = v.cache
        /\ calls' = Append(calls, ValidateCall(ConfiguredKey, v))
        /\ op' = [op EXCEPT !.pc = "devAccount"]
        /\ UNCHANGED <<result, uploads>>
    /\ UNCHANGED <<instanceVars, now, apiKeyObject, assetCache, assets,
                   policies, blobs, lastReg, opsDone, reads, cache,
                   cacheLog, folders>>

RenameValidate ==
    /\ op.kind = "rename" /\ op.pc = "validate"
    /\ \E q \in LedgerOutcomes :
        LET v == validateApiKey(ConfiguredKey, NULL, q) IN
        /\ apiKeyCache' = v.cache
        /\ calls' = Append(calls, ValidateCall(ConfiguredKey, v))
        /\ IF v.error # NULL
           THEN Finish(OperationCatch(Thrown(v.error, NULL)))
           ELSE /\ op' = [op EXCEPT !.pc = "devAccount"]
                /\ UNCHANGED <<result, uploads>>
    /\ UNCHANGED <<instanceVars, now, apiKeyObject, assetCache, assets,
                   policies, blobs, lastReg, opsDone, reads, cache,
                   cacheLog, folders>>

RenameDevAccount ==
    /\ op.kind = "rename" /\ op.pc = "devAccount"
    /\ \E found \in BOOLEAN :
        /\ calls' \in {Append(calls, DevAccountQuery(found, threw)) :
                        threw \in IF found THEN {FALSE} ELSE BOOLEAN}
        /\ IF ~found
           THEN Finish(OperationCatch(Thrown("ValidationError", NULL)))
           ELSE /\ op' = [op EXCEPT !.pc = "ledger"]
                /\ UNCHANGED <<result, uploads>>
    /\ UNCHANGED <<instanceVars, now, apiKeyObject, apiKeyCache, assetCache,
                   assets, policies, blobs, lastReg, opsDone, reads, cache,
                   cacheLog, folders>>

\* suiService.renameAssetWithApiKey({..., signer}), assetCache.delete
RenameWithApiKey ==
    /\ op.kind = "rename" /\ op.pc = "ledger"
    /\ \E ledgerOk \in BOOLEAN :
        LET n == op.argAsset[2]
            tx == Tx("asset::rename_asset_with_api_key", "held", signer,
                     TRUE, op.argAsset, NoId, NoBlob, TRUE)
            commit == signer # NULL /\ ledgerOk
                      /\ OwnerSigns(n, SignerAddress(signer))
        IN
        /\ calls' = Append(calls, [tx EXCEPT !.ok = commit])
        /\ IF commit
           THEN /\ assets' = [assets EXCEPT ![n].name = "n1",
                                                  ![n].version = @ + 1]
                /\ assetCache' = CacheDelete(n)
                /\ Finish([NoResult EXCEPT !.status = "ok",
                                           !.assetId = op.argAsset])
           ELSE /\ Finish(OperationCatch(Thrown("BlockchainError", "Error")))
                /\ UNCHANGED <<assets, assetCache>>
    /\ UNCHANGED <<instanceVars, now, apiKeyObject, apiKeyCache, policies,
                   blobs, lastReg, opsDone, reads, cache, cacheLog, folders>>

-----------------------------------------------------------------------------

Next ==
    \/ Tick
    \/ UploadBegin
    \/ UploadValidate
    \/ UploadDevAccount
    \/ UploadPlainBlob
    \/ UploadCreateAsset
    \/ UploadCreatePolicy
    \/ UploadApplyPolicy
    \/ UploadEncrypt
    \/ UploadCipherBlob
    \/ UploadBlob
    \/ UploadRegister
    \/ RetrieveBegin
    \/ RetrieveValidate
    \/ RetrieveGetAsset
    \/ RetrieveBlob
    \/ RetrieveDecrypt
    \/ DeleteBegin
    \/ DeleteValidate
    \/ DeleteGetAsset
    \/ DeleteDevAccount
    \/ DeleteLedger
    \/ DeleteUserPaysBegin
    \/ DeleteUserPaysFetch
    \/ DeleteUserPaysLedger
    \/ DeleteBlob
    \/ RenameBegin
    \/ RenameUserPays
    \/ RenameValidate
    \/ RenameDevAccount
    \/ RenameWithApiKey

Spec == Init /\ [][Next]_vars

-----------------------------------------------------------------------------
(* Construction with every caller-supplied configuration: where the        *)
(* constructor throws there is no instance, and the caller holds what was  *)
(* thrown.                                                                 *)

\* no instance: nothing can be called
NoInstance == [IdleOp EXCEPT !.kind = "unconstructed"]

InitConstruct ==
    \/ Init
    \/ /\ \E c \in RawConfigs :
            /\ Construct(c) # "ok"
            /\ config = [gasStrategy |-> c.gasStrategy,
                         encryption |-> c.encryption]
            /\ result = [Thrown(Construct(c), NULL)
                            EXCEPT !.op = "constructor"]
       /\ signer = NULL
       /\ signAndExecuteFn = NULL
       /\ userAddress = NULL
       /\ sealService = FALSE
       /\ now = 0
       /\ apiKeyObject \in [isActive : {TRUE}, expiresAt : {0},
                            permissions : PermissionSets,
                         eventsAfter : {0}]
       /\ apiKeyCache = [k \in ApiKeys |-> NoCacheEntry]
       /\ assetCache = [n \in 1..MaxAssets |-> NoAssetCacheEntry]
       /\ assets = <<>>
       /\ policies = <<>>
       /\ blobs = {}
       /\ op = NoInstance
       /\ calls = <<>>
       /\ lastReg = NoReg
       /\ uploads = {}
       /\ opsDone = 0
       /\ reads = NoReads
       /\ cache = NoCache
       /\ cacheLog = NoCacheLog
       /\ folders = NoFolders

SpecConstruct == InitConstruct /\ [][Next]_vars

-----------------------------------------------------------------------------
(* The credential validator on its own.  ApiKeyService is exported, so a   *)
(* caller may present any key string, with or without the object id; the   *)
(* key's developer may deactivate the ledger object, and the object may    *)
(* carry an expiry time.  The instance is one without encryption.          *)

\* permission masks of the ledger's ApiKey object: all, no upload, upload only
KeyPermissionSets == {7, 6, 1}

\* fields.expires_at of the ledger's ApiKey object; 0 is "never"
ExpiryTimes == 0..MaxClock

\* api_key::deactivate by the key's developer, seen by the next validation
DeactivateKey ==
    /\ apiKeyObject.isActive
    /\ op.pc = "validate"
    /\ apiKeyObject' = [apiKeyObject EXCEPT !.isActive = FALSE]
    /\ UNCHANGED <<instanceVars, now, apiKeyCache, assetCache, assets,
                   policies, blobs, op, calls, lastReg, result, uploads,
                   opsDone, reads, cache, cacheLog, folders>>

ValidateKeyBegin ==
    /\ Begin([IdleOp EXCEPT !.kind = "validateApiKey", !.pc = "validate"])
    /\ UNCHANGED <<instanceVars, now, apiKeyObject, apiKeyCache, assetCache,
                   assets, policies, blobs, folders>>

\* apiKeyService.validateApiKey(apiKey, packageId, apiKeyId?)
ValidateKeyRun ==
    /\ op.kind = "validateApiKey" /\ op.pc = "validate"
    /\ \E apiKey \in ApiKeys, apiKeyId \in {NULL, KeyObjectId},
          q \in LedgerOutcomes :
        LET v == validateApiKey(apiKey, apiKeyId, q) IN
        /\ apiKeyCache' = v.cache
        /\ calls' = Append(calls, ValidateCall(apiKey, v))
        /\ Finish(IF v.error = NULL
                  THEN [NoResult EXCEPT !.status = "ok",
                                        !.permissions = v.permissions]
                  ELSE [Thrown(v.error, NULL) EXCEPT !.msg = v.msg])
    /\ UNCHANGED <<instanceVars, now, apiKeyObject, assetCache, assets,
                   policies, blobs, lastReg, opsDone, reads, cache,
                   cacheLog, folders>>

InitKey ==
    /\ \E c \in RawConfigs :
        /\ Construct(c) = "ok"
        /\ ~c.encryption
        /\ config = [gasStrategy |-> c.gasStrategy,
                     encryption |-> c.encryption]
        /\ signer = getSigner(c.gasStrategy, c.sponsorPrivateKey)
        /\ signAndExecuteFn = IF c.gasStrategy = "user-pays"
                              THEN c.signAndExecuteTransaction ELSE NULL
        /\ userAddress = IF c.gasStrategy = "user-pays"
                         THEN c.userAddress ELSE NULL
        /\ sealService = c.encryption
    /\ now = 0
    /\ apiKeyObject \in [isActive : {TRUE}, expiresAt : ExpiryTimes,
                         permissions : KeyPermissionSets,
                         eventsAfter : {0}]
    /\ apiKeyCache = [k \in ApiKeys |-> NoCacheEntry]
    /\ assetCache = [n \in 1..MaxAssets |-> NoAssetCacheEntry]
    /\ assets = <<>>
    /\ policies = <<>>
    /\ blobs = {}
    /\ op = IdleOp
    /\ calls = <<>>
    /\ lastReg = NoReg
    /\ result = NoResult
    /\ uploads = {}
    /\ opsDone = 0
    /\ reads = NoReads
    /\ cache = NoCache
    /\ cacheLog = NoCacheLog
    /\ folders = NoFolders

NextKey ==
    \/ Tick
    \/ DeactivateKey
    \/ ValidateKeyBegin
    \/ ValidateKeyRun
    \/ UploadBegin
    \/ UploadValidate
    \/ UploadDevAccount
    \/ UploadBlob
    \/ UploadRegister
    \/ RetrieveBegin
    \/ RetrieveValidate
    \/ RetrieveGetAsset
    \/ RetrieveBlob
    \/ DeleteBegin
    \/ DeleteValidate
    \/ DeleteGetAsset
    \/ DeleteDevAccount
    \/ DeleteLedger
    \/ DeleteBlob

SpecKey == InitKey /\ [][NextKey]_vars

-----------------------------------------------------------------------------
(* Walbucket.getAsset and the asset cache.  The ledger outlives the        *)
(* instance: it holds an asset registered earlier, whose blob is stored.   *)

\* getAsset calls per behaviour
MaxReads == 2

\* getAsset(n) returned a record before, the cache entry that held it has
\* not lapsed, and the object was not mutated since
Repeated(n) ==
    /\ reads.last[n].asset # NoAsset
    /\ now < reads.last[n].until
    /\ CurrentVersion(n) = reads.last[n].version

GetAssetBegin ==
    \E n \in 1..MaxAssets :
        /\ op.kind = "idle"
        /\ reads.count < MaxReads
        /\ op' = [IdleOp EXCEPT !.kind = "getAsset", !.pc = "getAsset",
                                !.argAsset = AssetId(n)]
        /\ reads' = [reads EXCEPT !.count = @ + 1]
        /\ calls' = <<>>
        /\ lastReg' = NoReg
        /\ result' = NoResult
        /\ UNCHANGED <<instanceVars, now, apiKeyObject, apiKeyCache,
                       assetCache, assets, policies, blobs, uploads, opsDone, cache,
                   cacheLog, folders>>

\* the record is returned to the caller
GetAssetReturn(n, a, until) ==
    /\ Finish([NoResult EXCEPT !.status = "ok", !.assetId = AssetId(n),
                               !.asset = a,
                               !.repeated = Repeated(n)])
    /\ reads' = [reads EXCEPT !.last[n] =
                    IF a = NoAsset THEN NoRead
                    ELSE [asset |-> a, version |-> CurrentVersion(n),
                          until |-> until]]

\* assetCache.get(assetId); on a miss suiService.getAsset(assetId) and,
\* for a record, assetCache.set(assetId, asset)
GetAssetRun_NeverCaches ==
    /\ op.kind = "getAsset" /\ op.pc = "getAsset"
    /\ LET n == op.argAsset[2]
           cached == CacheGet(n)
       IN
       IF cached # NoAsset
       THEN /\ GetAssetReturn(n, cached, assetCache[n].expiresAt)
            /\ UNCHANGED <<calls, assetCache>>
       ELSE \E ok \in BOOLEAN :
            /\ calls' = Append(calls, Query("getAsset", ok))
            /\ IF ~ok
               THEN /\ Finish(Thrown("BlockchainError", "Error"))
                    /\ UNCHANGED <<assetCache, reads, cache,
                                   cacheLog, folders>>
               ELSE /\ GetAssetReturn(n, getAsset(n), now + CacheTTL)
                    /\ UNCHANGED assetCache
    /\ UNCHANGED <<instanceVars, now, apiKeyObject, apiKeyCache, assets,
                   policies, blobs, lastReg, opsDone, cache,
                   cacheLog, folders>>

GetAssetRun ==
    /\ op.kind = "getAsset" /\ op.pc = "getAsset"
    /\ LET n == op.argAsset[2]
           cached == CacheGet(n)
       IN
       IF cached # NoAsset
       THEN /\ GetAssetReturn(n, cached, assetCache[n].expiresAt)
            /\ UNCHANGED <<calls, assetCache>>
       ELSE \E ok \in BOOLEAN :
            /\ calls' = Append(calls, Query("getAsset", ok))
            /\ IF ~ok
               THEN /\ Finish(Thrown("BlockchainError", "Error"))
                    /\ UNCHANGED <<assetCache, reads, cache,
                                   cacheLog, folders>>
               ELSE /\ GetAssetReturn(n, getAsset(n), now + CacheTTL)
                    /\ assetCache' = IF getAsset(n) # NoAsset
                                     THEN CacheSet(n, getAsset(n))
                                     ELSE assetCache
    /\ UNCHANGED <<instanceVars, now, apiKeyObject, apiKeyCache, assets,
                   policies, blobs, lastReg, opsDone, cache,
                   cacheLog, folders>>

\* Walbucket.list(owner), issued while another operation may be in flight:
\* suiService.listAssets, then assetCache.set for every asset listed
List ==
    \E owner \in {SponsorAddr, WalletAddr} :
        LET Listed(n) == getAsset(n) # NoAsset /\ getAsset(n).owner = owner
        IN
        /\ \E n \in 1..MaxAssets : Listed(n)
        /\ assetCache' = [n \in 1..MaxAssets |->
                             IF Listed(n) THEN CacheSet(n, getAsset(n))[n]
                             ELSE assetCache[n]]
        /\ UNCHANGED <<instanceVars, now, apiKeyObject, apiKeyCache, assets,
                       policies, blobs, op, calls, lastReg, result, uploads,
                       opsDone, reads, cache, cacheLog, folders>>

\* the asset registered earlier, by the sponsor or by the wallet
StoredFile == Plaintext("P1")

EarlierAsset(owner) ==
    [owner |-> owner, blobId |-> stringToBytes(StoreBlobId(StoredFile)),
     policyId |-> NoId, name |-> "n0", deleted |-> FALSE, version |-> 1]

InitCache ==
    /\ \E c \in RawConfigs :
        /\ Construct(c) = "ok"
        /\ ~c.encryption
        /\ config = [gasStrategy |-> c.gasStrategy,
                     encryption |-> c.encryption]
        /\ signer = getSigner(c.gasStrategy, c.sponsorPrivateKey)
        /\ signAndExecuteFn = IF c.gasStrategy = "user-pays"
                              THEN c.signAndExecuteTransaction ELSE NULL
        /\ userAddress = IF c.gasStrategy = "user-pays"
                         THEN c.userAddress ELSE NULL
        /\ sealService = c.encryption
    /\ now = 0
    /\ apiKeyObject \in [isActive : {TRUE}, expiresAt : {0},
                         permissions : PermissionSets,
                         eventsAfter : {0}]
    /\ apiKeyCache = [k \in ApiKeys |-> NoCacheEntry]
    /\ assetCache = [n \in 1..MaxAssets |-> NoAssetCacheEntry]
    /\ \E owner \in {SponsorAddr, WalletAddr} :
        assets = <<EarlierAsset(owner)>>
    /\ policies = <<>>
    /\ blobs = {StoredFile}
    /\ op = IdleOp
    /\ calls = <<>>
    /\ lastReg = NoReg
    /\ result = NoResult
    /\ uploads = {}
    /\ opsDone = 0
    /\ reads = NoReads
    /\ cache = NoCache
    /\ cacheLog = NoCacheLog
    /\ folders = [NoFolders EXCEPT !.exists = TRUE]

NextCache ==
    \/ Tick
    \/ GetAssetBegin
    \/ GetAssetRun
    \/ List
    \/ RetrieveBegin
    \/ RetrieveValidate
    \/ RetrieveGetAsset
    \/ RetrieveBlob
    \/ DeleteBegin
    \/ DeleteValidate
    \/ DeleteGetAsset
    \/ DeleteDevAccount
    \/ DeleteLedger
    \/ DeleteUserPaysBegin
    \/ DeleteUserPaysFetch
    \/ DeleteUserPaysLedger
    \/ DeleteBlob
    \/ RenameBegin
    \/ RenameUserPays
    \/ RenameValidate
    \/ RenameDevAccount
    \/ RenameWithApiKey

SpecCache == InitCache /\ [][NextCache]_vars

-----------------------------------------------------------------------------
(* The operations that have one ledger entry point per gas strategy: rename *)
(* above, and copy, createFolder, deleteFolder, moveToFolder, shareAsset,   *)
(* createShareableLink, revokeShare and deactivateShareableLink.  The       *)
(* grants, links and copies these transactions create or change are not     *)
(* part of the state; the one folder of the model is the variable folders.  *)

VariantOps ==
    {"copy", "createFolder", "deleteFolder", "moveToFolder", "shareAsset",
     "createShareableLink", "revokeShare", "deactivateShareableLink"}

\* the entry point of the user-pays branch
UserPaysTarget(kind) ==
    CASE kind = "rename"       -> "asset::rename_asset"
      [] kind = "copy"         -> "asset::copy_asset"
      [] kind = "createFolder" -> "folder::create_folder"
      [] kind = "deleteFolder" -> "folder::delete_folder"
      [] kind = "moveToFolder" -> "asset::move_asset_to_folder"
      [] kind = "shareAsset"   -> "share::share_asset"
      [] kind = "createShareableLink" -> "share::create_shareable_link"
      [] kind = "revokeShare"  -> "share::revoke_share"
      [] kind = "deactivateShareableLink"
                               -> "share::deactivate_shareable_link"

\* the entry point of the developer-sponsored branch
SponsoredTarget(kind) ==
    CASE kind = "rename"       -> "asset::rename_asset_with_api_key"
      [] kind = "copy"         -> "asset::copy_asset_with_api_key"
      [] kind = "createFolder" -> "folder::create_folder_with_api_key"
      [] kind = "deleteFolder" -> "folder::delete_folder_with_api_key"
      [] kind = "moveToFolder" -> "asset::move_asset_to_folder_with_api_key"
      [] kind = "shareAsset"   -> "share::share_asset_with_api_key"
      [] kind = "createShareableLink"
                               -> "share::create_shareable_link_with_api_key"
      [] kind = "revokeShare"  -> "share::revoke_share_with_api_key"
      [] kind = "deactivateShareableLink"
                          -> "share::deactivate_shareable_link_with_api_key"

\* variant: an argument of the call selects the branch
VariantBegin_ArgumentSelects ==
    \E kind \in VariantOps, n \in 1..MaxAssets, o \in TriState :
        /\ Begin([IdleOp EXCEPT !.kind = kind,
                                !.pc = IF o = "true"
                                       THEN "userPays" ELSE "validate",
                                !.argAsset = AssetId(n),
                                !.argOption = o])
        /\ UNCHANGED <<instanceVars, now, apiKeyObject, apiKeyCache,
                       assetCache, assets, policies, blobs, folders>>

\* op(id, options): the object id and an optional argument (newName,
\* folderId, parentFolderId, the grant's or the link's options); the branch
\* is `this.config.gasStrategy === "user-pays"`
VariantBegin ==
    \E kind \in VariantOps, n \in 1..MaxAssets, o \in TriState :
        /\ Begin([IdleOp EXCEPT !.kind = kind,
                                !.pc = IF config.gasStrategy = "user-pays"
                                       THEN "userPays" ELSE "validate",
                                !.argAsset = AssetId(n),
                                !.argOption = o])
        /\ UNCHANGED <<instanceVars, now, apiKeyObject, apiKeyCache,
                       assetCache, assets, policies, blobs, folders>>

\* the asset object after the transaction, and the cache after the
\* operation: moveToFolder alone changes the asset and drops its entry
VariantAssets(n) ==
    IF op.kind = "moveToFolder"
    THEN [assets EXCEPT ![n].version = @ + 1] ELSE assets

VariantCache(n) ==
    IF op.kind = "moveToFolder" THEN CacheDelete(n) ELSE assetCache

\* moveToFolder(assetId, folderId): folderId undefined takes the asset out
MoveTarget == IF op.argOption = "undef" THEN NoId ELSE FolderId

\* the ledger after the transaction.  A transaction changes the objects it
\* is given: move_asset_to_folder[_with_api_key] is given the asset and the
\* folder's id as Option<ID>, never the Folder object, so it sets the
\* asset's folder_id and leaves every Folder as it was; delete_folder is
\* given the Folder and removes it.  The folders createFolder makes are
\* other objects.
VariantFolders(n) ==
    CASE op.kind = "moveToFolder" ->
            [folders EXCEPT !.folderOf[n] = MoveTarget,
                            !.movedOut =
                                IF MoveTarget = NoId
                                   /\ folders.folderOf[n] # NoId
                                THEN @ \cup {n} ELSE @ \ {n}]
      [] op.kind = "deleteFolder" -> [folders EXCEPT !.exists = FALSE]
      [] OTHER -> folders

\* what the ledger requires of the transaction: delete_folder aborts on a
\* folder that holds assets, the entry points given an asset abort unless
\* its owner signs
LedgerAccepts(n, addr) ==
    IF op.kind = "deleteFolder"
    THEN folders.exists /\ folders.assetCount = 0
    ELSE OwnerSigns(n, addr)

\* variant: the SuiService method catches a failed submission and returns
VariantUserPays_SwallowsFailure ==
    /\ op.kind \in VariantOps /\ op.pc = "userPays"
    /\ \E ledgerOk \in BOOLEAN :
        LET n == op.argAsset[2]
            tx == Tx(UserPaysTarget(op.kind), "external", signAndExecuteFn,
                     FALSE, op.argAsset, NoId, NoBlob, TRUE)
            commit == ledgerOk /\ LedgerAccepts(n, WalletAddr)
        IN
        IF signAndExecuteFn = NULL \/ userAddress = NULL
        THEN /\ Finish(OperationCatch(Thrown("BlockchainError", NULL)))
             /\ UNCHANGED <<calls, assets, assetCache, folders>>
        ELSE /\ calls' = Append(calls, [tx EXCEPT !.ok = commit])
             /\ IF commit
                THEN /\ assets' = VariantAssets(n)
                     /\ folders' = VariantFolders(n)
                     /\ assetCache' = VariantCache(n)
                     /\ Finish([NoResult EXCEPT !.status = "ok",
                                                !.assetId = op.argAsset])
                ELSE /\ Finish([NoResult EXCEPT !.status = "ok",
                                                !.assetId = op.argAsset])
                     /\ UNCHANGED <<assets, assetCache, folders>>
    /\ UNCHANGED <<instanceVars, now, apiKeyObject, apiKeyCache, policies,
                   blobs, lastReg, opsDone, reads, cache, cacheLog>>

\* user-pays: the SuiService method signs through signAndExecuteFn
VariantUserPays ==
    /\ op.kind \in VariantOps /\ op.pc = "userPays"
    /\ \E ledgerOk \in BOOLEAN :
        LET n == op.argAsset[2]
            tx == Tx(UserPaysTarget(op.kind), "external", signAndExecuteFn,
                     FALSE, op.argAsset, NoId, NoBlob, TRUE)
            commit == ledgerOk /\ LedgerAccepts(n, WalletAddr)
        IN
        IF signAndExecuteFn = NULL \/ userAddress = NULL
        THEN /\ Finish(OperationCatch(Thrown("BlockchainError", NULL)))
             /\ UNCHANGED <<calls, assets, assetCache, folders>>
        ELSE /\ calls' = Append(calls, [tx EXCEPT !.ok = commit])
             /\ IF commit
                THEN /\ assets' = VariantAssets(n)
                     /\ folders' = VariantFolders(n)
                     /\ assetCache' = VariantCache(n)
                     /\ Finish([NoResult EXCEPT !.status = "ok",
                                                !.assetId = op.argAsset])
                ELSE /\ Finish(OperationCatch(
                            Thrown("BlockchainError", "Error")))
                     /\ UNCHANGED <<assets, assetCache, folders>>
    /\ UNCHANGED <<instanceVars, now, apiKeyObject, apiKeyCache, policies,
                   blobs, lastReg, opsDone, reads, cache, cacheLog>>

\* developer-sponsored: validateApiKey (no permission check)
VariantValidate ==
    /\ op.kind \in VariantOps /\ op.pc = "validate"
    /\ \E q \in LedgerOutcomes :
        LET v == validateApiKey(ConfiguredKey, NULL, q) IN
        /\ apiKeyCache' = v.cache
        /\ calls' = Append(calls, ValidateCall(ConfiguredKey, v))
        /\ IF v.error # NULL
           THEN Finish(OperationCatch(Thrown(v.error, NULL)))
           ELSE /\ op' = [op EXCEPT !.pc = "devAccount"]
                /\ UNCHANGED <<result, uploads>>
    /\ UNCHANGED <<instanceVars, now, apiKeyObject, assetCache, assets,
                   policies, blobs, lastReg, opsDone, reads, cache,
                   cacheLog, folders>>

VariantDevAccount ==
    /\ op.kind \in VariantOps /\ op.pc = "devAccount"
    /\ \E found \in BOOLEAN :
        /\ calls' \in {Append(calls, DevAccountQuery(found, threw)) :
                        threw \in IF found THEN {FALSE} ELSE BOOLEAN}
        /\ IF ~found
           THEN Finish(OperationCatch(Thrown("ValidationError", NULL)))
           ELSE /\ op' = [op EXCEPT !.pc = "ledger"]
                /\ UNCHANGED <<result, uploads>>
    /\ UNCHANGED <<instanceVars, now, apiKeyObject, apiKeyCache, assetCache,
                   assets, policies, blobs, lastReg, opsDone, reads, cache,
                   cacheLog, folders>>

\* developer-sponsored: the SuiService ...WithApiKey method signs with the
\* held signer
VariantWithApiKey ==
    /\ op.kind \in VariantOps /\ op.pc = "ledger"
    /\ \E ledgerOk \in BOOLEAN :
        LET n == op.argAsset[2]
            tx == Tx(SponsoredTarget(op.kind), "held", signer,
                     TRUE, op.argAsset, NoId, NoBlob, TRUE)
            commit == signer # NULL /\ ledgerOk
                      /\ LedgerAccepts(n, SignerAddress(signer))
        IN
        /\ calls' = Append(calls, [tx EXCEPT !.ok = commit])
        /\ IF commit
           THEN /\ assets' = VariantAssets(n)
                /\ folders' = VariantFolders(n)
                /\ assetCache' = VariantCache(n)
                /\ Finish([NoResult EXCEPT !.status = "ok",
                                           !.assetId = op.argAsset])
           ELSE /\ Finish(OperationCatch(Thrown("BlockchainError", "Error")))
                /\ UNCHANGED <<assets, assetCache, folders>>
    /\ UNCHANGED <<instanceVars, now, apiKeyObject, apiKeyCache, policies,
                   blobs, lastReg, opsDone, reads, cache, cacheLog>>

NextVariant ==
    \/ Tick
    \/ RenameBegin
    \/ RenameUserPays
    \/ RenameValidate
    \/ RenameDevAccount
    \/ RenameWithApiKey
    \/ VariantBegin
    \/ VariantUserPays
    \/ VariantValidate
    \/ VariantDevAccount
    \/ VariantWithApiKey

SpecVariant == InitCache /\ [][NextVariant]_vars

-----------------------------------------------------------------------------
(* The TTL cache on its own, and getAsset over the asset cache.  The clock *)
(* of the cache runs one tick past the operations' clock so that an entry  *)
(* set with its own, longer TTL can lapse.                                 *)

\* a per-entry TTL longer than the default
CustomTTL == CacheTTL + 1

Advance ==
    /\ op.kind = "idle"
    /\ now <= MaxClock
    /\ now' = now + 1
    /\ cacheLog' = [cacheLog EXCEPT !.got = NoGot]
    /\ UNCHANGED <<instanceVars, apiKeyObject, apiKeyCache, assetCache,
                   assets, policies, blobs, op, calls, lastReg, result,
                   uploads, opsDone, reads, cache, folders>>

SetEntry ==
    \E k \in CacheKeys, v \in CacheValues, ttl \in {<<>>, <<CustomTTL>>} :
        /\ op.kind = "idle"
        /\ cache' = TtlSet(cache, k, v, ttl)
        /\ cacheLog' = [cacheLog EXCEPT
                          !.last[k] = [set |-> TRUE, value |-> v, at |-> now,
                                       ttl |-> TtlOf(ttl),
                                       removed |-> FALSE],
                          !.got = NoGot]
        /\ UNCHANGED <<instanceVars, now, apiKeyObject, apiKeyCache,
                       assetCache, assets, policies, blobs, op, calls,
                       lastReg, result, uploads, opsDone, reads, folders>>

GetEntry ==
    \E k \in CacheKeys :
        /\ op.kind = "idle"
        /\ cacheLog' = [cacheLog EXCEPT
                          !.got = [key |-> k, value |-> TtlGet(cache, k),
                                   at |-> now]]
        /\ UNCHANGED <<instanceVars, now, apiKeyObject, apiKeyCache,
                       assetCache, assets, policies, blobs, op, calls,
                       lastReg, result, uploads, opsDone, reads, cache,
                       folders>>

DeleteEntry ==
    \E k \in CacheKeys :
        /\ op.kind = "idle"
        /\ cache' = TtlDelete(cache, k)
        /\ cacheLog' = [cacheLog EXCEPT !.last[k].removed = TRUE,
                                        !.got = NoGot]
        /\ UNCHANGED <<instanceVars, now, apiKeyObject, apiKeyCache,
                       assetCache, assets, policies, blobs, op, calls,
                       lastReg, result, uploads, opsDone, reads, folders>>

ClearEntries ==
    /\ op.kind = "idle"
    /\ cache' = TtlClear(cache)
    /\ cacheLog' = [last |-> [k \in CacheKeys |->
                                [cacheLog.last[k] EXCEPT !.removed = TRUE]],
                    got |-> NoGot]
    /\ UNCHANGED <<instanceVars, now, apiKeyObject, apiKeyCache, assetCache,
                   assets, policies, blobs, op, calls, lastReg, result,
                   uploads, opsDone, reads, folders>>

CleanEntries ==
    /\ op.kind = "idle"
    /\ cache' = TtlClean(cache)
    /\ cacheLog' = [cacheLog EXCEPT !.got = NoGot]
    /\ UNCHANGED <<instanceVars, now, apiKeyObject, apiKeyCache, assetCache,
                   assets, policies, blobs, op, calls, lastReg, result,
                   uploads, opsDone, reads, folders>>

\* a developer-sponsored instance without encryption, with an asset of the
\* sponsor's on the ledger
InitTtl ==
    /\ InitCache
    /\ config.gasStrategy = "developer-sponsored"
    /\ apiKeyObject.permissions = PERMISSION_UPLOAD + PERMISSION_READ
                                    + PERMISSION_DELETE
    /\ assets[1].owner = SponsorAddr

NextTtl ==
    \/ Advance
    \/ SetEntry
    \/ GetEntry
    \/ DeleteEntry
    \/ ClearEntries
    \/ CleanEntries
    \/ GetAssetBegin
    \/ GetAssetRun

SpecTtl == InitTtl /\ [][NextTtl]_vars

-----------------------------------------------------------------------------
(* Uploads with getAsset and list on the same instance.  The caches are    *)
(* shared by the invocations in flight: list may run between two steps of  *)
(* an upload.  The instance is developer-sponsored with encryption on.     *)

InitShared ==
    /\ \E c \in RawConfigs :
        /\ Construct(c) = "ok"
        /\ c.gasStrategy = "developer-sponsored" /\ c.encryption
        /\ config = [gasStrategy |-> c.gasStrategy,
                     encryption |-> c.encryption]
        /\ signer = getSigner(c.gasStrategy, c.sponsorPrivateKey)
        /\ signAndExecuteFn = NULL
        /\ userAddress = NULL
        /\ sealService = c.encryption
    /\ now = 0
    /\ apiKeyObject \in [isActive : {TRUE}, expiresAt : {0},
                         permissions : PermissionSets,
                         eventsAfter : {0}]
    /\ apiKeyCache = [k \in ApiKeys |-> NoCacheEntry]
    /\ assetCache = [n \in 1..MaxAssets |-> NoAssetCacheEntry]
    /\ assets = <<>>
    /\ policies = <<>>
    /\ blobs = {}
    /\ op = IdleOp
    /\ calls = <<>>
    /\ lastReg = NoReg
    /\ result = NoResult
    /\ uploads = {}
    /\ opsDone = 0
    /\ reads = NoReads
    /\ cache = NoCache
    /\ cacheLog = NoCacheLog
    /\ folders = NoFolders

NextShared ==
    \/ Tick
    \/ UploadBegin
    \/ UploadValidate
    \/ UploadDevAccount
    \/ UploadPlainBlob
    \/ UploadCreateAsset
    \/ UploadCreatePolicy
    \/ UploadApplyPolicy
    \/ UploadEncrypt
    \/ UploadCipherBlob
    \/ RetrieveBegin
    \/ RetrieveValidate
    \/ RetrieveGetAsset
    \/ RetrieveBlob
    \/ RetrieveDecrypt
    \/ GetAssetBegin
    \/ GetAssetRun
    \/ List

SpecShared == InitShared /\ [][NextShared]_vars


-----------------------------------------------------------------------------
(* Properties *)

RegistrationTargets ==
    {"asset::upload_asset_with_api_key", "asset::upload_asset"}

IsRegistration(c) == c.fn = "tx" /\ c.target \in RegistrationTargets

\* the log `calls` is the log of an upload
UploadLog == op.kind = "upload" \/ result.op = "upload"

StrategySigner ==
    IF config.gasStrategy = "user-pays" THEN "walletFn" ELSE "sponsorKeypair"

StepKind(c) ==
    IF c.fn = "walrus.upload" THEN "blob"
    ELSE IF c.fn = "seal.encrypt" THEN "encrypt"
    ELSE IF IsRegistration(c) THEN "register"
    ELSE IF c.fn = "tx"
            /\ c.target = "policy::create_encryption_policy_with_api_key"
    THEN "createPolicy"
    ELSE IF c.fn = "tx"
            /\ c.target = "policy::apply_policy_to_asset_with_api_key"
    THEN "applyPolicy"
    ELSE "-"

IsSagaStep(c) == StepKind(c) # "-"

Saga == SelectSeq(calls, IsSagaStep)

EncryptedOrder ==
    <<"blob", "register", "createPolicy", "applyPolicy", "encrypt", "blob">>

EncUploads == {u \in uploads : u.policyId # NoId}
PlainUploads == {u \in uploads : u.policyId = NoId}

IsDecrypt(c) == c.fn = "seal.decrypt"

\* C1: in every upload, a registration mutation references the credential
\* (API key) object if and only if the instance's strategy is sponsored.
C1_RegistrationCredentialIffSponsored ==
    UploadLog =>
        \A i \in DOMAIN calls :
            IsRegistration(calls[i]) =>
                (calls[i].apiKeyRef
                    <=> config.gasStrategy = "developer-sponsored")

C3_OneAuthorizationPath ==
    \A i \in DOMAIN calls :
        calls[i].fn = "tx" =>
            IF config.gasStrategy = "developer-sponsored"
            THEN calls[i].via = "held" /\ calls[i].signer = "sponsorKeypair"
            ELSE calls[i].via = "external" /\ calls[i].signer = "walletFn"

C5_PartialFailureNamesAsset ==
    \A i \in DOMAIN calls :
        (/\ result.op = "upload" /\ result.status = "error"
         /\ IsRegistration(calls[i]) /\ calls[i].ret # NoId)
        => /\ result.error \in {"BlockchainError", "EncryptionError"}
           /\ result.errAssetId = calls[i].ret
           /\ result.errBlobId = calls[i].blobId

\* C6: a retrieve of an asset from a successful encrypted upload that does
\* not decrypt returns the ciphertext produced in step 5.
C6_RetrieveReturnsCiphertext ==
    \A u \in EncUploads :
        (/\ result.op = "retrieve" /\ result.status = "ok"
         /\ result.assetId = u.assetId
         /\ \A i \in DOMAIN calls : ~IsDecrypt(calls[i]))
        => result.data = SealEncrypt(u.file, u.policyId)

\* C7: in a retrieve of an asset from a successful encrypted upload of B,
\* the bytes handed to decryption are the ciphertext produced from B under
\* the asset's policy, and a retrieve that decrypted returns B.
C7_DecryptRoundTrip ==
    \A u \in EncUploads :
        \A i \in DOMAIN calls :
            (IsDecrypt(calls[i]) /\ calls[i].policyId = u.policyId)
            => /\ calls[i].data = SealEncrypt(u.file, u.policyId)
               /\ (result.op = "retrieve" /\ result.status = "ok")
                     => result.data = u.file

\* C8: for a successful plain upload of B the blob reference in the asset
\* record is the one the blob store returned for B, and a retrieve of the
\* asset that returns, returns B.
C8_PlainRoundTrip ==
    \A u \in PlainUploads :
        /\ getAsset(u.assetId[2]) # NoAsset /\ IsAssetId(u.assetId)
              => getAsset(u.assetId[2]).blobId = StoreBlobId(u.file)
        /\ (/\ result.op = "retrieve" /\ result.status = "ok"
            /\ result.assetId = u.assetId)
              => result.data = u.file

\* C9: a failed upload attempts no compensation: it issues no delete of a
\* blob or asset, no step after the failing one, and every blob it stored
\* and every asset it registered is still there.
C9_NoCompensation ==
    UploadLog =>
        \A i \in DOMAIN calls :
            /\ calls[i].fn # "walrus.delete"
            /\ calls[i].fn = "tx" =>
                  calls[i].target \notin {"asset::delete_asset",
                                          "asset::delete_asset_with_api_key"}
            /\ i < Len(calls) => calls[i].ok
            /\ (calls[i].fn = "walrus.upload" /\ calls[i].ok)
                  => calls[i].data \in blobs
            /\ (IsRegistration(calls[i]) /\ calls[i].ok)
                  => /\ Len(assets) > 0
                     /\ ~assets[Len(assets)].deleted
                     /\ bytesToString(assets[Len(assets)].blobId)
                            = calls[i].blobId

C9_Witness ==
    /\ result.op = "upload" /\ result.status = "error"
    /\ \E i \in DOMAIN calls :
          /\ IsRegistration(calls[i]) /\ calls[i].ret # NoId
          /\ i < Len(calls)
          /\ ~calls[Len(calls)].ok
          /\ calls[Len(calls)].fn = "seal.encrypt"

CreatedChanges(resp) == SelectSeq(resp.changes, IsCreatedChange)

\* the case of C10: submitted through the external function, the immediate
\* response had a digest and no effects, and the re-queried response lists
\* the created asset in objectChanges only
C10_Case ==
    /\ lastReg.entry # "-"
    /\ lastReg.immDigest /\ ~lastReg.immEffects
    /\ lastReg.requeried
    /\ ~lastReg.resp.hasEffects
    /\ lastReg.resp.hasObjectChanges
    /\ Len(CreatedChanges(lastReg.resp)) = 1
    /\ CreatedChanges(lastReg.resp)[1].objectId = lastReg.created

EffectsYield(reg) ==
    /\ reg.resp.hasEffects
    /\ IF reg.entry = "createAsset" THEN Len(reg.resp.created) > 0
       ELSE FirstAssetAt(reg.resp.created, 1) > 0

ChangesYield(reg) ==
    /\ reg.resp.hasObjectChanges
    /\ IF reg.entry = "createAsset"
       THEN Len(SelectSeq(reg.resp.changes, IsCreatedChange)) > 0
       ELSE Len(SelectSeq(reg.resp.changes, IsCreatedAssetChange)) > 0

\* C11 as stated: on both entry points the object-changes list is the source
\* of the returned id only when the effects list yields no id.
C11_EffectsBeforeChanges ==
    (lastReg.entry # "-" /\ lastReg.source = "objectChanges")
        => ~EffectsYield(lastReg)

\* C11, amended: createAsset takes the id from effects.created whenever that
\* list yields one and from the created entries of objectChanges only
\* otherwise; uploadAssetUserPays takes it from the created asset entries of
\* objectChanges whenever that list yields one and from effects.created only
\* otherwise.
C11_ExtractionOrderPerEntry ==
    /\ lastReg.entry = "createAsset" =>
        /\ lastReg.source = "effects" <=> EffectsYield(lastReg)
        /\ lastReg.source = "objectChanges"
              <=> (~EffectsYield(lastReg) /\ ChangesYield(lastReg))
        /\ lastReg.source = "effects"
              => lastReg.returned = lastReg.resp.created[1].objectId
        /\ lastReg.source = "objectChanges"
              => lastReg.returned
                   = SelectSeq(lastReg.resp.changes, IsCreatedChange)[1].objectId
    /\ lastReg.entry = "uploadAssetUserPays" =>
        /\ lastReg.source = "objectChanges" <=> ChangesYield(lastReg)
        /\ lastReg.source = "effects"
              => (~ChangesYield(lastReg) /\ EffectsYield(lastReg))
        /\ lastReg.source # "none" => lastReg.returned = lastReg.created

C11_Witness ==
    /\ lastReg.entry = "uploadAssetUserPays"
    /\ EffectsYield(lastReg) /\ ChangesYield(lastReg)
    /\ lastReg.source = "objectChanges"
    /\ lastReg.returned = lastReg.created
    /\ result.status = "ok"

\* C12: when a registration was submitted, its digest is known, and the
\* re-queried response yields a created id neither in effects nor in
\* objectChanges, the operation fails with a BlockchainError that carries the
\* digest.
C12_DigestReachesCaller ==
    (/\ lastReg.entry # "-"
     /\ lastReg.immDigest /\ lastReg.requeried
     /\ ~lastReg.resp.hasEffects /\ ~lastReg.resp.hasObjectChanges)
    => (result.status = "error"
        => result.error = "BlockchainError" /\ result.errDigest)

IsMutation(c) == c.fn \in {"walrus.upload", "walrus.delete", "tx"}

\* C13: within one operation no collaborator mutation is attempted twice, no
\* call follows a failed call, and the only repeated interaction is one
\* waitForTransaction directly after a submission through the external
\* function.
C13_AtMostOnce ==
    /\ \A i, j \in DOMAIN calls :
          (i < j /\ IsMutation(calls[i]) /\ IsMutation(calls[j]))
              => ~(/\ calls[i].fn = calls[j].fn
                   /\ calls[i].target = calls[j].target
                   /\ calls[i].data = calls[j].data)
    /\ \A i \in DOMAIN calls :
          /\ i < Len(calls) => calls[i].ok
          /\ calls[i].fn = "waitForTransaction"
                => /\ i > 1
                   /\ calls[i - 1].fn = "tx"
                   /\ calls[i - 1].via = "external"

C13_Witness ==
    /\ result.op = "upload" /\ result.status = "error"
    /\ Len(calls) >= 4
    /\ calls[Len(calls)].fn = "waitForTransaction"
    /\ ~calls[Len(calls)].ok
    /\ \E i \in DOMAIN calls : calls[i].fn = "walrus.upload" /\ calls[i].ok

-----------------------------------------------------------------------------
(* Credential validation *)

\* the ledger's ApiKey object is usable now
Usable ==
    /\ apiKeyObject.isActive
    /\ apiKeyObject.expiresAt = 0 \/ now < apiKeyObject.expiresAt

\* this step ran the validator
Validated ==
    /\ Len(calls') = Len(calls) + 1
    /\ calls'[Len(calls')].fn = "validateApiKey"

\* the validator's outcome in this step
Outcome == calls'[Len(calls')]

\* C14: whenever validateApiKey returns a credential record, from the cache
\* or from a fresh ledger read, the credential is at that moment active and
\* unexpired.
C14_ReturnedOnlyIfUsable ==
    [][Validated /\ Outcome.ok => Usable]_vars

\* the ledger's ApiKey object has an expiry time that has been reached, or
\* is inactive
ExpiredOrInactive ==
    \/ apiKeyObject.expiresAt # 0 /\ apiKeyObject.expiresAt <= now
    \/ ~apiKeyObject.isActive

\* C15: a validation that reads the ledger record of a credential that has
\* expired or is inactive fails with ValidationError and leaves the
\* credential cache as it was.
C15_UnusableReadFails ==
    [][Validated /\ Outcome.read /\ ExpiredOrInactive
         => /\ ~Outcome.ok
            /\ Outcome.error = "ValidationError"
            /\ apiKeyCache' = apiKeyCache]_vars

\* a validation has just read the record of an expired credential and
\* thrown, with nothing cached
C15_Witness ==
    /\ calls # <<>>
    /\ calls[Len(calls)].fn = "validateApiKey"
    /\ calls[Len(calls)].read
    /\ calls[Len(calls)].route # "cache"
    /\ calls[Len(calls)].apiKey = ConfiguredKey
    /\ apiKeyObject.expiresAt # 0 /\ apiKeyObject.expiresAt <= now
    /\ calls[Len(calls)].msg = "API key has expired"
    /\ \A k \in ApiKeys : ~apiKeyCache[k].present

\* the key presented in this step's validation is not the one whose hash
\* the ledger record stores, and the validation read that record
MismatchRead ==
    Validated /\ Outcome.apiKey # ConfiguredKey /\ Outcome.read

\* C16 (as stated): a presented credential whose hash does not match the
\* stored hash fails with the not-found ValidationError, by the event scan
\* and with a supplied ledger identifier alike.
C16_MismatchIsNotFound ==
    [][MismatchRead
         => /\ ~Outcome.ok
            /\ Outcome.error = "ValidationError"
            /\ Outcome.msg = "API key not found"]_vars

\* C16 (amended): a presented credential whose hash does not match the
\* stored hash is never returned or cached; when the record was read the
\* validation fails with ValidationError, the not-found one by the event
\* scan and the invalid-hash one with a supplied ledger identifier.
C16_MismatchFailsPerRoute ==
    [][/\ Validated /\ Outcome.apiKey # ConfiguredKey
          => ~Outcome.ok /\ apiKeyCache' = apiKeyCache
       /\ MismatchRead
          => /\ Outcome.error = "ValidationError"
             /\ Outcome.msg = IF Outcome.route = "scan"
                              THEN "API key not found"
                              ELSE "Invalid API key hash"]_vars

\* a key other than the stored one was presented with the object id and
\* the record was read
C16_Witness ==
    /\ calls # <<>>
    /\ calls[Len(calls)].fn = "validateApiKey"
    /\ calls[Len(calls)].apiKey # ConfiguredKey
    /\ calls[Len(calls)].route = "byId"
    /\ calls[Len(calls)].read
    /\ result.status = "error"
    /\ result.msg = "Invalid API key hash"

\* bitwise AND of two naturals
RECURSIVE BitAnd(_, _)
BitAnd(a, b) ==
    IF a = 0 \/ b = 0 THEN 0
    ELSE (a % 2) * (b % 2) + 2 * BitAnd(a \div 2, b \div 2)

\* the operation the call log belongs to
LogKind == IF op.kind # "idle" THEN op.kind ELSE result.op

\* the capability an operation asks for
Capability(kind) ==
    CASE kind = "upload"   -> PERMISSION_UPLOAD
      [] kind = "retrieve" -> PERMISSION_READ
      [] kind = "delete"   -> PERMISSION_DELETE

IsBlobOrMutation(c) ==
    c.fn \in {"walrus.upload", "walrus.retrieve", "walrus.delete", "tx"}

\* the running or last operation validated the credential first and the
\* validated mask has the operation's capability bit
Permitted ==
    /\ calls # <<>>
    /\ calls[1].fn = "validateApiKey" /\ calls[1].ok
    /\ BitAnd(calls[1].permissions, Capability(LogKind)) # 0

\* the running or last operation validated the credential and the validated
\* mask lacks the operation's capability bit
Refused ==
    /\ calls # <<>>
    /\ calls[1].fn = "validateApiKey" /\ calls[1].ok
    /\ BitAnd(calls[1].permissions, Capability(LogKind)) = 0

\* C17: upload, retrieve and delete make a blob-store call or a ledger
\* mutation only if the validated permission mask ANDed with the
\* operation's capability constant is non-zero; otherwise the operation
\* fails with ValidationError having made no such call.
C17_CapabilityGatesEffects ==
    LogKind \in {"upload", "retrieve", "delete"} =>
        /\ (\E i \in 1..Len(calls) : IsBlobOrMutation(calls[i])) => Permitted
        /\ Refused =>
             /\ Len(calls) = 1
             /\ op.kind = "idle"
             /\ result.status = "error"
             /\ result.error = "ValidationError"

\* a retrieve was refused for a key that can only upload
C17_Witness ==
    /\ result.op = "retrieve"
    /\ Refused
    /\ calls[1].permissions = PERMISSION_UPLOAD
    /\ result.error = "ValidationError"

\* the running or last operation validated the credential before any other
\* collaborator call, and made no other call if the validation failed
CredentialFirst ==
    calls # <<>> =>
        /\ calls[1].fn = "validateApiKey"
        /\ ~calls[1].ok => Len(calls) = 1 /\ result.status = "error"

ValidatingOp ==
    \/ LogKind \in {"upload", "retrieve", "delete"}
    \/ LogKind = "rename" /\ config.gasStrategy = "developer-sponsored"

-----------------------------------------------------------------------------
(* Asset cache *)

\* this step is getAsset(AssetId(n)) running to its end
GetAssetEnds(n) ==
    /\ op.kind = "getAsset" /\ op.argAsset = AssetId(n)
    /\ op'.kind = "idle"

C20_FreshAfterMutation ==
    [][\A n \in 1..MaxAssets :
         GetAssetEnds(n)
           => \/ Len(calls') = 1 /\ calls'[1].fn = "getAsset"
              \/ assetCache[n].version = CurrentVersion(n)]_vars

\* an upload that created asset n has completed
MutationCompleted(n) == \E u \in uploads : u.assetId = AssetId(n)

\* this step of retrieve(AssetId(n)) takes the asset record from the cache
RetrieveServedFromCache(n) ==
    /\ op.kind = "retrieve" /\ op.pc = "validate"
    /\ op.argAsset = AssetId(n)
    /\ op'.kind = "retrieve" /\ op'.pc = "blob"

\* C22: whatever list, getAsset and retrieve calls are interleaved with an
\* encrypted upload in flight, once the upload of asset X has completed no
\* later getAsset(X) or retrieve(X) is served metadata that was read
\* before it: the record served is the record the ledger holds.
C22_NoStaleReadAfterMutation ==
    [][\A n \in 1..MaxAssets :
         MutationCompleted(n)
           => /\ RetrieveServedFromCache(n) => op'.asset = getAsset(n)
              /\ GetAssetEnds(n) /\ result'.status = "ok"
                    => result'.asset = getAsset(n)]_vars

-----------------------------------------------------------------------------
(* Deletion *)

\* call i of the log is the ledger deletion of delete()
LedgerDeleteAt(i) ==
    /\ calls[i].fn = "tx"
    /\ calls[i].target = "asset::delete_asset_with_api_key"

\* the calls delete() makes before the ledger deletion
BeforeLedgerDelete ==
    {"validateApiKey", "getAsset", "getDeveloperAccountId", "getObject"}

\* the log of delete() is in step order, and a failed ledger deletion ends it
DeleteLogInOrder ==
    LogKind = "delete" =>
      /\ \A i \in 1..Len(calls) :
           /\ calls[i].fn = "validateApiKey" => i = 1
           /\ i > 1 => /\ calls[1].fn = "validateApiKey" /\ calls[1].ok
                       /\ hasPermission(calls[1].permissions,
                                        PERMISSION_DELETE)
           /\ calls[i].fn = "getAsset" => i = 2
           /\ LedgerDeleteAt(i) =>
                \A j \in 1..(i - 1) : calls[j].fn \in BeforeLedgerDelete
           /\ calls[i].fn = "walrus.delete" =>
                /\ i = Len(calls) /\ i > 1
                /\ LedgerDeleteAt(i - 1) /\ calls[i - 1].ok
           /\ calls[i].fn \in {"getObject", "tx"} /\ ~calls[i].ok =>
                /\ i = Len(calls)
                /\ op.kind = "idle"
                /\ result.status = "error"
                /\ result.error = "BlockchainError"

\* a step of delete() touches the blob store and the asset cache only where
\* it issues the blob deletion, and then the cache entry is dropped
DeleteStepEffects ==
    op.kind = "delete" /\ op' # op =>
      /\ blobs' # blobs \/ assetCache' # assetCache =>
           /\ Len(calls') = Len(calls) + 1
           /\ calls'[Len(calls')].fn = "walrus.delete"
      /\ Len(calls') > Len(calls)
           /\ calls'[Len(calls')].fn = "walrus.delete" =>
           /\ assetCache' = CacheDelete(op.argAsset[2])
           /\ op'.kind = "idle"

BlobDeletionStep ==
    /\ op.kind \in {"delete", "deleteUserPays"} /\ op.pc = "blob"
    /\ op' # op

\* C24: once the ledger deletion has succeeded, whatever the blob store
\* answers to the blob deletion (success, 404, 405, another status, no
\* response), delete and deleteUserPays complete without throwing and the
\* asset's cache entry is invalidated.
C24_BlobStoreNeverFailsDelete ==
    [][BlobDeletionStep =>
         /\ op'.kind = "idle"
         /\ result'.status = "ok" /\ result'.error = NULL
         /\ ~assetCache'[op.argAsset[2]].present]_vars

\* deleteUserPays completed although the blob store gave no response
C24_Witness ==
    /\ result.op = "deleteUserPays" /\ result.status = "ok"
    /\ Len(calls) > 0
    /\ calls[Len(calls)].fn = "walrus.delete"
    /\ calls[Len(calls)].answer.kind = "transport"
    /\ ~assetCache[result.assetId[2]].present

\* the answers WalrusService.delete takes as done
Swallowed(answer) ==
    \/ answer.kind = "success"
    \/ /\ answer.kind = "status"
       /\ answer.status.code \in {HTTP_NOT_FOUND, HTTP_METHOD_NOT_ALLOWED}

\* C25: WalrusService.delete completes without error exactly when the store
\* answers success, 404 or 405; any other status and any transport failure
\* raises NetworkError, which carries the HTTP status when there is one.
C25_WalrusDeleteOutcome ==
    \A i \in 1..Len(calls) :
        calls[i].fn = "walrus.delete" =>
          /\ calls[i].error = NULL <=> Swallowed(calls[i].answer)
          /\ calls[i].error # NULL =>
               /\ calls[i].error = "NetworkError"
               /\ calls[i].status = calls[i].answer.status
               /\ calls[i].status.present <=>
                    calls[i].answer.kind = "status"

\* the store answered 500 and WalrusService.delete raised NetworkError(500)
C25_Witness ==
    \E i \in 1..Len(calls) :
        /\ calls[i].fn = "walrus.delete"
        /\ calls[i].answer.kind = "status"
        /\ calls[i].answer.status.code = HTTP_SERVER_ERROR
        /\ calls[i].error = "NetworkError"
        /\ calls[i].status = HttpStatus(HTTP_SERVER_ERROR)

-----------------------------------------------------------------------------
(* One ledger entry point per strategy *)

\* C26: in rename, copy, createFolder, deleteFolder, moveToFolder,
\* shareAsset, createShareableLink, revokeShare and
\* deactivateShareableLink the entry point, the submission path and the
\* credential validation are those of the configured gas strategy, whatever
\* the arguments of the call.
C26_VariantByStrategy ==
    LogKind \in VariantOps \cup {"rename"} =>
      \A i \in 1..Len(calls) :
        /\ calls[i].fn = "tx" =>
             IF config.gasStrategy = "user-pays"
             THEN /\ calls[i].target = UserPaysTarget(LogKind)
                  /\ calls[i].via = "external"
                  /\ ~calls[i].apiKeyRef
             ELSE /\ calls[i].target = SponsoredTarget(LogKind)
                  /\ calls[i].via = "held"
                  /\ calls[i].apiKeyRef
        /\ calls[i].fn \in {"validateApiKey", "getDeveloperAccountId"} =>
             config.gasStrategy = "developer-sponsored"

\* a user-pays shareAsset went through the wallet's entry point
C26_Witness ==
    /\ result.op = "shareAsset" /\ result.status = "ok"
    /\ config.gasStrategy = "user-pays"
    /\ Len(calls) = 1
    /\ calls[1].target = "share::share_asset"
    /\ calls[1].via = "external"

-----------------------------------------------------------------------------
(* Construction *)

\* the instance holds what its strategy signs with: the sponsor's keypair,
\* or the wallet's submission function and the invoking address
AuthorizationMaterial ==
    IF config.gasStrategy = "developer-sponsored"
    THEN signer = "sponsorKeypair"
    ELSE signAndExecuteFn # NULL /\ userAddress # NULL

\* the operations that submit a ledger mutation
MutatingOps ==
    {"upload", "delete", "deleteUserPays", "rename"} \cup VariantOps

\* C27: construction fails with ConfigurationError when the private key
\* (developer-sponsored) or the submission function or the invoking
\* address (user-pays) is absent, so no constructed instance is in a
\* mutating call without its authorization material.
C27_ConstructedWithMaterial ==
    op.kind \in MutatingOps => AuthorizationMaterial

-----------------------------------------------------------------------------
(* Retrieval of protected assets *)

\* the last retrieve was of an asset that has a policy on the ledger, gave
\* no session key and did not disable decryption, and it got the blob
UnkeyedRetrieveOfProtected ==
    /\ result.op = "retrieve" /\ result.unkeyed
    /\ Len(calls) > 0
    /\ calls[Len(calls)].fn = "walrus.retrieve" /\ calls[Len(calls)].ok
    /\ \E n \in 1..MaxAssets :
         /\ calls[Len(calls)].blobId = getAsset(n).blobId
         /\ getAsset(n) # NoAsset
         /\ getAsset(n).policyId # NoId

\* C28: a retrieve of an asset that has a policy, called without a session
\* key and without decryption disabled, fails with ValidationError and
\* returns no bytes.
C28_NoBytesWithoutSessionKey ==
    UnkeyedRetrieveOfProtected =>
      /\ result.status = "error"
      /\ result.error = "ValidationError"
      /\ result.data = NoData

-----------------------------------------------------------------------------
(* Errors *)

\* the error classes of the SDK
ErrorKinds ==
    {"ValidationError", "NetworkError", "EncryptionError",
     "BlockchainError", "ConfigurationError"}

\* the operation ended at a failed blob-store or Seal call
CollaboratorFailed ==
    /\ Len(calls) > 0
    /\ calls[Len(calls)].fn \in {"walrus.upload", "walrus.retrieve",
                                 "seal.encrypt", "seal.decrypt"}
    /\ ~calls[Len(calls)].ok

\* C29: every failure of an operation and of construction reaches the
\* caller as one of the five error kinds of the SDK, and an error that
\* stands for a collaborator's error carries it as its cause.
C29_OnlySdkErrors ==
    result.status = "error" =>
      /\ result.error \in ErrorKinds
      /\ CollaboratorFailed /\ result.error = "BlockchainError"
           => result.cause \in ErrorKinds

\* the kind a failed collaborator call raises: WalrusService raises
\* NetworkError, SealService EncryptionError
RaisedKind(c) ==
    IF c.fn \in {"walrus.upload", "walrus.retrieve"}
    THEN "NetworkError" ELSE "EncryptionError"

\* C30: in upload and retrieve a failure of the blob store reaches the
\* caller as NetworkError and a failure of encryption or decryption as
\* EncryptionError: the kind the collaborator raised is the kind the
\* caller sees.
C30_CollaboratorKindPreserved ==
    /\ result.op \in {"upload", "retrieve"}
    /\ result.status = "error"
    /\ CollaboratorFailed
    => result.error = RaisedKind(calls[Len(calls)])

-----------------------------------------------------------------------------
(* Upload result *)

\* the upload ran the encrypted flow: it sealed the file
EncryptedFlowRan == \E i \in 1..Len(calls) : calls[i].fn = "seal.encrypt"

\* C31: the result of an upload has encrypted = true exactly when the
\* encrypted flow ran (encryption enabled and a policy supplied); an upload
\* with encryption disabled or with no policy returns encrypted = false and
\* no policyId.
C31_EncryptedFlagIffEncryptedFlow ==
    result.op = "upload" /\ result.status = "ok" =>
      /\ result.encrypted <=> EncryptedFlowRan
      /\ ~EncryptedFlowRan => result.policyId = NoId

-----------------------------------------------------------------------------
(* Folders.  The ledger holds one folder and the asset registered earlier, *)
(* which may be in the folder; a folder that holds the asset counts it.    *)

InitFolder ==
    /\ \E c \in RawConfigs :
        /\ Construct(c) = "ok"
        /\ ~c.encryption
        /\ config = [gasStrategy |-> c.gasStrategy,
                     encryption |-> c.encryption]
        /\ signer = getSigner(c.gasStrategy, c.sponsorPrivateKey)
        /\ signAndExecuteFn = IF c.gasStrategy = "user-pays"
                              THEN c.signAndExecuteTransaction ELSE NULL
        /\ userAddress = IF c.gasStrategy = "user-pays"
                         THEN c.userAddress ELSE NULL
        /\ sealService = c.encryption
    /\ now = 0
    /\ apiKeyObject \in [isActive : {TRUE}, expiresAt : {0},
                         permissions : PermissionSets,
                         eventsAfter : {0}]
    /\ apiKeyCache = [k \in ApiKeys |-> NoCacheEntry]
    /\ assetCache = [n \in 1..MaxAssets |-> NoAssetCacheEntry]
    /\ \E owner \in {SponsorAddr, WalletAddr} :
        assets = <<EarlierAsset(owner)>>
    /\ policies = <<>>
    /\ blobs = {StoredFile}
    /\ op = IdleOp
    /\ calls = <<>>
    /\ lastReg = NoReg
    /\ result = NoResult
    /\ uploads = {}
    /\ opsDone = 0
    /\ reads = NoReads
    /\ cache = NoCache
    /\ cacheLog = NoCacheLog
    /\ \E inFolder \in BOOLEAN, count \in 0..MaxAssets :
        /\ inFolder => count >= 1
        /\ folders = [NoFolders EXCEPT
                         !.exists = TRUE, !.assetCount = count,
                         !.folderOf[1] = IF inFolder THEN FolderId ELSE NoId]

\* moveToFolder(assetId, folderId) and deleteFolder(folderId)
FolderOps == {"moveToFolder", "deleteFolder"}

FolderBegin ==
    \E kind \in FolderOps, n \in 1..MaxAssets, o \in {"undef", "true"} :
        /\ Begin([IdleOp EXCEPT !.kind = kind,
                                !.pc = IF config.gasStrategy = "user-pays"
                                       THEN "userPays" ELSE "validate",
                                !.argAsset = AssetId(n),
                                !.argOption = o])
        /\ UNCHANGED <<instanceVars, now, apiKeyObject, apiKeyCache,
                       assetCache, assets, policies, blobs>>

NextFolder ==
    \/ Tick
    \/ GetAssetBegin
    \/ GetAssetRun
    \/ FolderBegin
    \/ VariantUserPays
    \/ VariantValidate
    \/ VariantDevAccount
    \/ VariantWithApiKey

SpecFolder == InitFolder /\ [][NextFolder]_vars

\* this step completes moveToFolder(assetId, undefined) on an asset that is
\* in the folder
MoveOutCompletes ==
    /\ op.kind = "moveToFolder" /\ op.argOption = "undef"
    /\ folders.folderOf[op.argAsset[2]] = FolderId
    /\ result'.op = "moveToFolder" /\ result'.status = "ok"

\* getAsset returned the record of an asset whose last completed
\* moveToFolder took it out of the folder
GetAssetAfterMoveOut ==
    /\ result.op = "getAsset" /\ result.status = "ok"
    /\ result.asset # NoAsset
    /\ result.assetId[2] \in folders.movedOut

\* C32: after moveToFolder(assetId, undefined) has completed on an asset
\* that was in a folder, every later getAsset(assetId) reports no folderId,
\* and the completing step lowers the former folder's asset count by one.
C32_MoveOutOfFolder ==
    /\ [](GetAssetAfterMoveOut => result.asset.folderId = NoId)
    /\ [][MoveOutCompletes =>
            folders'.assetCount = folders.assetCount - 1]_vars

\* this step ends deleteFolder on a folder that holds assets
DeleteNonEmptyEnds ==
    /\ op.kind = "deleteFolder"
    /\ folders.exists /\ folders.assetCount > 0
    /\ result'.op = "deleteFolder"

\* C34: deleteFolder on a folder whose asset count is not zero ends in an
\* error thrown to the caller, under either gas strategy, and leaves the
\* folder record as it was.
C34_DeleteNonEmptyFolderFails ==
    [][DeleteNonEmptyEnds =>
        /\ result'.status = "error"
        /\ result'.error \in ErrorKinds
        /\ folders' = folders]_vars

\* deleteFolder of a folder that holds assets was submitted and came back
\* as an error
C34_Witness ==
    /\ result.op = "deleteFolder" /\ result.status = "error"
    /\ folders.exists /\ folders.assetCount > 0
    /\ \E i \in 1..Len(calls) :
        /\ calls[i].fn = "tx" /\ ~calls[i].ok
        /\ calls[i].target \in {UserPaysTarget("deleteFolder"),
                                 SponsoredTarget("deleteFolder")}

\* C35: the id a registration returns is the id of the Asset object its
\* transaction created, whatever else the transaction created and wherever
\* the asset stands in the created-object lists.
C35_ReturnedIdIsCreatedAsset ==
    lastReg.returned # NoId => lastReg.returned = lastReg.created

\* the credential-hash argument the ledger can match with the ApiKey
\* object: the bytes of the digest the validator compared
ValidatedHashBytes == HexDecode(hashApiKey(ConfiguredKey))

\* C36: every sponsored mutation passes, as its credential-hash argument,
\* the digest of the configured key that the validator compared with the
\* ledger's record, whichever public operation issues it.
C36_SameHashInEveryMutation ==
    \A i \in 1..Len(calls) :
        calls[i].fn = "tx" /\ calls[i].apiKeyRef =>
            calls[i].apiKeyHash = ValidatedHashBytes

-----------------------------------------------------------------------------
(* The credential validator past the cache TTL.  The clock runs until a    *)
(* record cached at the last moment the key was usable has lapsed.  The    *)
(* ApiKey object carries, as history, the time it was deactivated.         *)

LateClock == MaxClock + CacheTTL + 1

LateTick ==
    /\ now < LateClock
    /\ op.pc = "validate"
    /\ now' = now + 1
    /\ UNCHANGED <<instanceVars, apiKeyObject, apiKeyCache, assetCache,
                   assets, policies, blobs, op, calls, lastReg, result,
                   uploads, opsDone, reads, cache, cacheLog, folders>>

\* api_key::deactivate by the key's developer, at the current time
DeactivateKeyLate ==
    /\ apiKeyObject.isActive
    /\ op.pc = "validate"
    /\ apiKeyObject' = [apiKeyObject EXCEPT !.isActive = FALSE,
                                            !.deactivatedAt = now]
    /\ UNCHANGED <<instanceVars, now, apiKeyCache, assetCache, assets,
                   policies, blobs, op, calls, lastReg, result, uploads,
                   opsDone, reads, cache, cacheLog, folders>>

InitKeyLate ==
    /\ \E c \in RawConfigs :
        /\ Construct(c) = "ok"
        /\ ~c.encryption
        /\ config = [gasStrategy |-> c.gasStrategy,
                     encryption |-> c.encryption]
        /\ signer = getSigner(c.gasStrategy, c.sponsorPrivateKey)
        /\ signAndExecuteFn = IF c.gasStrategy = "user-pays"
                              THEN c.signAndExecuteTransaction ELSE NULL
        /\ userAddress = IF c.gasStrategy = "user-pays"
                         THEN c.userAddress ELSE NULL
        /\ sealService = c.encryption
    /\ now = 0
    /\ apiKeyObject \in [isActive : {TRUE}, expiresAt : ExpiryTimes,
                         permissions : KeyPermissionSets,
                         deactivatedAt : {0}, eventsAfter : LaterEvents]
    /\ apiKeyCache = [k \in ApiKeys |-> NoCacheEntry]
    /\ assetCache = [n \in 1..MaxAssets |-> NoAssetCacheEntry]
    /\ assets = <<>>
    /\ policies = <<>>
    /\ blobs = {}
    /\ op = IdleOp
    /\ calls = <<>>
    /\ lastReg = NoReg
    /\ result = NoResult
    /\ uploads = {}
    /\ opsDone = 0
    /\ reads = NoReads
    /\ cache = NoCache
    /\ cacheLog = NoCacheLog
    /\ folders = NoFolders

NextKeyLate ==
    \/ LateTick
    \/ DeactivateKeyLate
    \/ ValidateKeyBegin
    \/ ValidateKeyRun

SpecKeyLate == InitKeyLate /\ [][NextKeyLate]_vars

\* the time from which the credential has been unusable: its expiry time
\* or the time of its deactivation, whichever came first
UnusableSince ==
    LET lapsed == apiKeyObject.expiresAt # 0 /\ apiKeyObject.expiresAt <= now
    IN  IF apiKeyObject.isActive THEN apiKeyObject.expiresAt
        ELSE IF lapsed /\ apiKeyObject.expiresAt < apiKeyObject.deactivatedAt
        THEN apiKeyObject.expiresAt
        ELSE apiKeyObject.deactivatedAt

\* this step validates the configured key later than the cache TTL after
\* the credential became unusable
LateValidation ==
    /\ Validated /\ Outcome.apiKey = ConfiguredKey
    /\ ExpiredOrInactive
    /\ now > UnusableSince + CacheTTL

ValidationQueryFailed ==
    /\ Len(calls') = Len(calls) + 1
    /\ \/ /\ Outcome.fn = "validateApiKey"
          /\ ~Outcome.ok /\ ~Outcome.read
       \/ /\ Outcome.fn = "getDeveloperAccountId"
          /\ Outcome.error # NULL

\* C38: a ledger query failure during credential validation (event scan,
\* object fetch, developer-account lookup) reaches the caller as
\* BlockchainError, never as ValidationError.
C38_QueryFailureIsBlockchainError ==
    [][ValidationQueryFailed =>
          /\ result'.status = "error"
          /\ result'.error = "BlockchainError"]_vars

\* this step validated the configured key by the event scan, with every
\* ledger query answered
ScanValidation ==
    /\ Validated /\ Outcome.apiKey = ConfiguredKey
    /\ Outcome.route = "scan" /\ Outcome.read

\* C39: for a credential that is on the ledger, active and unexpired,
\* validateApiKey with the matching secret and no ledger identifier finds
\* and returns its record, however many credential-creation events were
\* emitted after it.
C39_ScanFindsUsableKey ==
    [][ScanValidation /\ Usable => Outcome.ok]_vars

-----------------------------------------------------------------------------
(* Uploads of files of any size *)

NextSized ==
    \/ Tick
    \/ UploadSizedBegin
    \/ UploadValidate
    \/ UploadDevAccount
    \/ UploadPlainBlob
    \/ UploadCreateAsset
    \/ UploadCreatePolicy
    \/ UploadApplyPolicy
    \/ UploadEncrypt
    \/ UploadCipherBlob
    \/ UploadBlob
    \/ UploadRegister

SpecSized == Init /\ [][NextSized]_vars

\* the running upload's file is over the single-blob limit
OversizeUpload ==
    op.kind = "upload" /\ ByteLength(op.file) > MAX_SINGLE_BLOB_SIZE

\* a request of the running operation went to the blob store
BlobRequestSent ==
    \E i \in 1..Len(calls) :
        /\ calls[i].fn \in {"walrus.upload", "walrus.delete",
                            "walrus.retrieve"}
        /\ calls[i].msg # OversizeMessage

LedgerMutationSubmitted == \E i \in 1..Len(calls) : calls[i].fn = "tx"

\* this step ends an oversize upload at its first blob store step
OversizeUploadEnds ==
    /\ OversizeUpload /\ op.pc \in {"e1", "p1"}
    /\ result'.op = "upload"

\* C33: an upload whose file exceeds the 100 MB single-blob limit fails
\* with a NetworkError that carries status 413, and until it fails no
\* request goes to the blob store and no ledger mutation is submitted.
C33_OversizeUploadRejected ==
    /\ [](OversizeUpload => ~BlobRequestSent /\ ~LedgerMutationSubmitted)
    /\ [][OversizeUploadEnds =>
            /\ result'.status = "error"
            /\ result'.error = "NetworkError"
            /\ calls'[Len(calls')].status =
                   HttpStatus(HTTP_PAYLOAD_TOO_LARGE)]_vars

-----------------------------------------------------------------------------
(* TTL cache *)

\* the value last set for k is still to be served: not deleted or cleared
\* since, and less than its TTL has elapsed since it was set
Live(k) ==
    /\ cacheLog.last[k].set
    /\ ~cacheLog.last[k].removed
    /\ now - cacheLog.last[k].at < cacheLog.last[k].ttl

\* the asset cache holds no unexpired entry for asset n
AssetEntryLapsed(n) ==
    ~(assetCache[n].present /\ now < assetCache[n].expiresAt)

\* C21: under any sequence of set, get, delete, clear and clean and clock
\* advances, get(k) returns the value most recently set for k exactly when
\* that entry was not deleted or cleared since and less than its TTL (its
\* own when given, else the default) has elapsed; otherwise it returns
\* null, and a getAsset that finds no unexpired entry queries the ledger.
C21_GetServesLiveEntries ==
    [][/\ cacheLog'.got # NoGot /\ cacheLog'.got # cacheLog.got
          => cacheLog'.got.value =
                IF Live(cacheLog'.got.key)
                THEN cacheLog.last[cacheLog'.got.key].value
                ELSE NULL
       /\ \A n \in 1..MaxAssets :
            GetAssetEnds(n) /\ AssetEntryLapsed(n)
              => Len(calls') = 1 /\ calls'[1].fn = "getAsset"]_vars

\* a get has just returned null for an entry whose default TTL has elapsed
\* while an entry set at the same time with a longer TTL is still served
C21_Witness ==
    /\ cacheLog.got.key = "key1"
    /\ cacheLog.got.value = NULL
    /\ cacheLog.last["key1"].set /\ ~cacheLog.last["key1"].removed
    /\ cacheLog.last["key1"].ttl = CacheTTL
    /\ now - cacheLog.last["key1"].at = CacheTTL
    /\ cacheLog.last["key2"].set /\ cacheLog.last["key2"].ttl = CustomTTL
    /\ cacheLog.last["key2"].at = cacheLog.last["key1"].at
    /\ TtlGet(cache, "key2") = cacheLog.last["key2"].value

====
